---- MODULE Spec2Model ----
(***************************************************************************)
(* Model of the deduplication and archive-packaging tools of               *)
(* clang-tool-chain-bins:                                                  *)
(*   tools/deduplicate_binaries.py    standalone dedup / expand            *)
(*   tools/fetch_and_archive.py       full packaging pipeline              *)
(*   tools/create_hardlink_archive.py hard-link layout, tar, verify        *)
(*                                                                         *)
(* File names and archive paths are sequences of one-character strings so  *)
(* that Python's str comparison, endswith and `in` are computed, not       *)
(* assumed.  A file's content is its byte sequence; st_size is its length. *)
(***************************************************************************)
EXTENDS Integers, Sequences, FiniteSets, TLC

(***************************************************************************)
(* Bounds of the model.                                                    *)
(***************************************************************************)
MaxFiles == 3
MaxStale == 1
MaxRuns == 2

(***************************************************************************)
(* Python str primitives.                                                  *)
(***************************************************************************)
Ord ==
  "." :> 46 @@ "/" :> 47 @@ "1" :> 49 @@ "R" :> 82 @@ "a" :> 97 @@ "b" :> 98 @@
  "c" :> 99 @@ "d" :> 100 @@ "e" :> 101 @@ "h" :> 104 @@ "i" :> 105 @@
  "l" :> 108 @@ "n" :> 110 @@ "o" :> 111 @@ "s" :> 115 @@ "t" :> 116 @@
  "w" :> 119 @@ "x" :> 120 @@ "y" :> 121 @@ "z" :> 122

MinOf(S) == CHOOSE x \in S : \A y \in S : x <= y

StrLess(s, t) ==
  LET n == IF Len(s) < Len(t) THEN Len(s) ELSE Len(t)
      diff == {i \in 1..n : s[i] # t[i]}
  IN  IF diff = {} THEN Len(s) < Len(t)
      ELSE Ord[s[MinOf(diff)]] < Ord[t[MinOf(diff)]]

EndsWith(s, suffix) ==
  /\ Len(s) >= Len(suffix)
  /\ SubSeq(s, Len(s) - Len(suffix) + 1, Len(s)) = suffix

StartsWith(s, prefix) ==
  /\ Len(s) >= Len(prefix)
  /\ SubSeq(s, 1, Len(prefix)) = prefix

Contains(s, sub) ==
  \E i \in 1..(Len(s) - Len(sub) + 1) : SubSeq(s, i, i + Len(sub) - 1) = sub

SortedNames(names) == SortSeq(names, StrLess)

\* sorted(...) of a directory listing: the result does not depend on the
\* order the listing came in
RECURSIVE SortedSet(_)
SortedSet(S) ==
  IF S = {} THEN <<>>
  ELSE LET least == CHOOSE n \in S : \A m \in S : n = m \/ StrLess(n, m)
       IN  <<least>> \o SortedSet(S \ {least})

Perms(S) ==
  {p \in [1..Cardinality(S) -> S] : \A i, j \in 1..Cardinality(S) : i # j => p[i] # p[j]}

\* a dict kept as its items in insertion order
Keys(pairs) == {pairs[i][1] : i \in 1..Len(pairs)}
Values(pairs) == {pairs[i][2] : i \in 1..Len(pairs)}
Lookup(pairs, k) == pairs[CHOOSE i \in 1..Len(pairs) : pairs[i][1] = k][2]

RECURSIVE Flatten(_)
Flatten(ss) == IF ss = <<>> THEN <<>> ELSE Head(ss) \o Flatten(Tail(ss))

RECURSIVE SumSeq(_)
SumSeq(s) == IF s = <<>> THEN 0 ELSE Head(s) + SumSeq(Tail(s))

(***************************************************************************)
(* The files of the modelled directories.                                  *)
(***************************************************************************)
DotExe == <<".", "e", "x", "e">>
A_exe == <<"a">> \o DotExe
AB_exe == <<"a", "b">> \o DotExe
B_exe == <<"b">> \o DotExe
C_dll == <<"c", ".", "d", "l", "l">>
Z_exe == <<"z">> \o DotExe

NamePool == {A_exe, AB_exe, B_exe, C_dll}
StalePool == {A_exe, Z_exe}

Empty == <<>>
DataX == <<1, 2>>
DataY == <<3, 4, 5>>
Contents == {Empty, DataX, DataY}

FileOf(data) == [kind |-> "file", data |-> data]
DirEntry == [kind |-> "dir", data |-> <<>>]
Entries == {FileOf(c) : c \in Contents} \cup {DirEntry}

\* hashlib.md5 over the whole byte stream: a fixed function of the content,
\* injective on the contents of the model (no collisions).
Md5 == Empty :> 13 @@ DataX :> 9 @@ DataY :> 4

Dirs(pool, max, entries) ==
  UNION {[S -> entries] : S \in {T \in SUBSET pool : Cardinality(T) <= max}}

(***************************************************************************)
(* State.                                                                  *)
(***************************************************************************)
VARIABLES
  srcDir,        \* source directory: name -> entry
  destCanonical, \* <dest>/canonical: name -> bytes
  destManifest,  \* <dest>/dedup_manifest.json as written, or AbsentFile
  outBin,        \* <output>/bin of expand: name -> bytes
  dedupRuns,     \* results of the create_deduped_structure calls so far
  expandStatus,  \* "none" | "ok" | "error"
  expandWrote,   \* names expand_deduped_structure wrote
  pipeOut        \* result of fetch_and_archive.deduplicate_binaries, or NoResult

dedupVars ==
  <<srcDir, destCanonical, destManifest, outBin, dedupRuns, expandStatus,
    expandWrote, pipeOut>>

\* create_hardlink_archive.py main(): one packaging run
VARIABLES
  pc,            \* the statement of main() reached
  manifestFile,  \* <deduped>/dedup_manifest.json: sequence of <<name, canonical>>
  canonicalDir,  \* <deduped>/canonical: name -> [data, mode]
  libSrc,        \* <deduped>/lib: path below the root -> source mode
  tree,          \* <output>/win_hardlinked: path -> [data, ino, mode]
  skipped,       \* names reported "Warning: Canonical file not found"
  tarFile,       \* <name>.tar: AbsentFile or [status, members]
  issues,        \* issues_found of verify_tar_permissions
  zstFile        \* <name>.tar.zst: "absent" | "compressed"

archVars ==
  <<pc, manifestFile, canonicalDir, libSrc, tree, skipped, tarFile, issues, zstFile>>

\* how a run of one of the tools ended
VARIABLES
  exitCode,      \* <<>> while the process runs, <<status>> once it has exited
  zstandard      \* "untried" | "imported" | "ImportError": outcome of `import zstandard`

procVars == <<exitCode, zstandard>>

\* fetch_and_archive.py main() from step 4 on, create_iwyu_archives.py
\* compress_with_zstd, split_archive.py and the generated join helpers
VARIABLES
  tool,          \* the program that runs
  stage,         \* the statement it has reached
  strippedBin,   \* work/stripped/bin: name -> [data, mode]
  libClang,      \* work/stripped/lib/clang, or the source_dir of
                 \* create_iwyu_archives.py: archive path -> source mode
  manifestData,  \* manifest_data returned by deduplicate_binaries, or NoResult
  hardlinked,    \* work/hardlinked: archive path -> [data, ino, mode]
  workTar,       \* the .tar file: AbsentFile or [status, members, chunks]
  permIssues,    \* issues_found of verify_tar_permissions
  finalArchiveBound, \* "final_archive" in locals() of main()
  chunksRead,    \* compress_with_zstd: chunks of the tar consumed so far
  outDir,        \* output directory: file name -> file
  artifact,      \* the bytes of the archive handed to the splitter
  sizeArgMb,     \* max_size_mb / part_size_mb argument of split_archive
  pos,           \* read offset of f in split_archive
  parts,         \* the list `parts` of split_archive
  splitReturned, \* "no" | "None" | "parts": what split_archive has returned
  joinDir,       \* directory a join helper ran in: file name -> file
  joinExit       \* NoResult, or [status, lang, code] of the join helper that ran

pipeVars ==
  <<tool, stage, strippedBin, libClang, manifestData, hardlinked, workTar,
    permIssues, finalArchiveBound, chunksRead, outDir, artifact, sizeArgMb,
    pos, parts, splitReturned, joinDir, joinExit>>

\* expand_archive.py expand_zst_archive: one call
VARIABLES
  keepHardlinks, \* the keep_hardlinks argument
  archive,       \* archive_path: AbsentFile or [status, root, bin], bin being
                 \* name -> [data, link], link the member the name is a link to
  outputDir,     \* output_dir: entry name -> [kind] or [kind, bin], bin being
                 \* name -> [data, ino]
  extractedRoot  \* the entry of output_dir returned, or NoResult

expandVars == <<keepHardlinks, archive, outputDir, extractedRoot>>

\* split_archive.py update_manifest_with_parts
VARIABLES
  manifestJson   \* manifest.json: AbsentFile or [status, json], json being the
                 \* top-level dict as its items

updateVars == <<manifestJson>>

\* download_binaries.py BinaryDownloader.download_platform: one call
VARIABLES
  platformKey,      \* the platform_key argument
  verifyChecksums,  \* self.verify_checksums
  expectedChecksum, \* expected_checksum: NoResult for None, or a checksum
  dbChecksum,       \* what get_checksum finds for the platform
  downloads,        \* self.output_dir: file name -> bytes
  attempts,         \* the download_file calls made: [path, ok]
  extracted,        \* NoResult, or the file handed to the extractor
  returned          \* NoResult, or what download_platform returned

downloadVars ==
  <<platformKey, verifyChecksums, expectedChecksum, dbChecksum, downloads,
    attempts, extracted, returned>>

\* fetch_and_archive.py download_file: one call
VARIABLES
  fetchUrl,      \* what the URL serves: [status, data]
  fetchDir,      \* the directory of output_path: path -> [kind, status, data]
  fetchExc       \* "none", or the exception that is being raised

fetchVars == <<fetchUrl, fetchDir, fetchExc>>

utilVars == <<expandVars, updateVars, downloadVars, fetchVars>>

vars == <<dedupVars, archVars, procVars, pipeVars, utilVars>>

(***************************************************************************)
(* deduplicate_binaries.py                                                 *)
(***************************************************************************)
IsExe(name) == EndsWith(name, DotExe)

\* directory.glob("*.exe") in the order the listing returns the names
GlobExe(listing) == SelectSeq(listing, IsExe)

AddToGroups(groups, h, name, size) ==
  IF \E i \in 1..Len(groups) : groups[i].hash = h
  THEN [i \in 1..Len(groups) |->
          IF groups[i].hash = h
          THEN [groups[i] EXCEPT !.files = Append(@, name)]
          ELSE groups[i]]
  ELSE Append(groups, [hash |-> h, files |-> <<name>>, size |-> size])

RECURSIVE GroupByHash(_, _, _)
GroupByHash(dir, files, groups) ==
  IF files = <<>> THEN groups
  ELSE LET f == Head(files)
       IN  GroupByHash(dir, Tail(files),
                       AddToGroups(groups, Md5[dir[f].data], f, Len(dir[f].data)))

\* analyze_directory: get_file_hash opens every match; a match that is a
\* directory makes open() raise.
AnalyzeDirectory(dir, listing) ==
  LET files == GlobExe(listing)
  IN  IF \E i \in 1..Len(files) : dir[files[i]].kind = "dir"
      THEN [status |-> "error", groups |-> <<>>]
      ELSE [status |-> "ok", groups |-> GroupByHash(dir, files, <<>>)]

SavingsPercent(savings, total_size) ==
  IF total_size > 0 THEN <<savings * 100, total_size>> ELSE <<0, 1>>

CalculateSavings(groups) ==
  LET total_size == SumSeq([i \in 1..Len(groups) |-> groups[i].size * Len(groups[i].files)])
      deduped_size == SumSeq([i \in 1..Len(groups) |-> groups[i].size])
      duplicate_count ==
        SumSeq([i \in 1..Len(groups) |->
                  IF Len(groups[i].files) > 1 THEN Len(groups[i].files) - 1 ELSE 0])
      savings == total_size - deduped_size
  IN  [total_size |-> total_size, deduped_size |-> deduped_size,
       savings |-> savings,
       savings_percent |-> SavingsPercent(savings, total_size),
       duplicate_count |-> duplicate_count]

HashLess(g, h) == g.hash < h.hash

\* sorted(hash_to_files.items())
SortedGroups(groups) == SortSeq(groups, HashLess)

CanonicalFirstScanned(files) == Head(files)

\* canonical = sorted(files)[0]
Canonical(files) == Head(SortedNames(files))

GroupEntriesSkipCanonical(files, canonical) ==
  LET rest == SelectSeq(files, LAMBDA f : f # canonical)
  IN  [i \in 1..Len(rest) |-> <<rest[i], canonical>>]

\* for filename in files: manifest[filename] = canonical
GroupEntries(files, canonical) ==
  [i \in 1..Len(files) |-> <<files[i], canonical>>]

BuildManifest(groups) ==
  LET sg == SortedGroups(groups)
  IN  Flatten([i \in 1..Len(sg) |-> GroupEntries(sg[i].files, Canonical(sg[i].files))])

BuildCanonicalFiles(groups) ==
  LET sg == SortedGroups(groups)
  IN  [i \in 1..Len(sg) |-> <<sg[i].hash, Canonical(sg[i].files)>>]

\* shutil.copy2(source_dir / canonical, canonical_dir / canonical) per group
CopyCanonicals(dir, groups, cdir) ==
  LET cf == BuildCanonicalFiles(groups)
      names == {cf[i][2] : i \in 1..Len(cf)}
  IN  [n \in DOMAIN cdir \cup names |->
         IF n \in names THEN dir[n].data ELSE cdir[n]]

ManifestData(groups, stats) ==
  [status |-> "ok", manifest |-> BuildManifest(groups),
   canonical_files |-> BuildCanonicalFiles(groups), stats |-> stats]

ErrorResult == [status |-> "error"]
NoResult == [status |-> "none"]
AbsentFile == [status |-> "absent"]

CreateDedupedStructure ==
  /\ Len(dedupRuns) < MaxRuns
  /\ \E listing \in Perms(DOMAIN srcDir) :
       LET a == AnalyzeDirectory(srcDir, listing)
       IN  IF a.status = "error"
           THEN /\ dedupRuns' = Append(dedupRuns, ErrorResult)
                /\ UNCHANGED <<destCanonical, destManifest>>
           ELSE LET md == ManifestData(a.groups, CalculateSavings(a.groups))
                IN  /\ destCanonical' = CopyCanonicals(srcDir, a.groups, destCanonical)
                    /\ destManifest' = md
                    /\ dedupRuns' = Append(dedupRuns, md)
  /\ UNCHANGED <<srcDir, outBin, expandStatus, expandWrote, pipeOut>>
  /\ UNCHANGED <<archVars, procVars, pipeVars, utilVars>>

\* the loop of expand_deduped_structure over manifest.items(); copy2 raises
\* on the first canonical that is missing and the copies made so far remain
RECURSIVE ExpandLoop(_, _, _)
ExpandLoop(items, cdir, acc) ==
  IF items = <<>> THEN [status |-> "ok", bin |-> acc.bin, wrote |-> acc.wrote]
  ELSE LET filename == Head(items)[1]
           canonical == Head(items)[2]
       IN  IF canonical \notin DOMAIN cdir
           THEN [status |-> "error", bin |-> acc.bin, wrote |-> acc.wrote]
           ELSE ExpandLoop(Tail(items), cdir,
                  [bin |-> [n \in DOMAIN acc.bin \cup {filename} |->
                              IF n = filename THEN cdir[canonical] ELSE acc.bin[n]],
                   wrote |-> acc.wrote \cup {filename}])

ExpandDedupedStructure ==
  /\ expandStatus = "none"
  /\ IF destManifest.status = "absent"
     THEN /\ expandStatus' = "error"
          /\ UNCHANGED <<outBin, expandWrote>>
     ELSE LET r == ExpandLoop(destManifest.manifest, destCanonical,
                              [bin |-> outBin, wrote |-> {}])
          IN  /\ expandStatus' = r.status
              /\ outBin' = r.bin
              /\ expandWrote' = r.wrote
  /\ UNCHANGED <<srcDir, destCanonical, destManifest, dedupRuns, pipeOut>>
  /\ UNCHANGED <<archVars, procVars, pipeVars, utilVars>>

(***************************************************************************)
(* fetch_and_archive.py, step 4                                            *)
(***************************************************************************)
\* binaries = sorted(bin_dir.glob("*")) restricted to regular files
RegularFiles(dir) ==
  SelectSeq(SortedSet(DOMAIN dir), LAMBDA n : dir[n].kind = "file")

PipeStats(groups, total_files) ==
  LET total_size == SumSeq([i \in 1..Len(groups) |-> groups[i].size * Len(groups[i].files)])
      deduped_size == SumSeq([i \in 1..Len(groups) |-> groups[i].size])
      savings == total_size - deduped_size
  IN  [total_size |-> total_size, deduped_size |-> deduped_size,
       savings |-> savings,
       savings_percent |-> SavingsPercent(savings, total_size),
       duplicate_count |-> total_files - Len(groups)]

\* deduplicate_binaries: the "Space savings" print divides by total_size
\* before the manifest is returned
DeduplicateBinariesResult(dir) ==
  LET binaries == RegularFiles(dir)
      groups == GroupByHash(dir, binaries, <<>>)
      stats == PipeStats(groups, Len(binaries))
  IN  IF stats.total_size = 0 THEN ErrorResult
      ELSE ManifestData(groups, stats)

DeduplicateBinaries ==
  /\ pipeOut.status = "none"
  /\ pipeOut' = DeduplicateBinariesResult(srcDir)
  /\ UNCHANGED <<srcDir, destCanonical, destManifest, outBin, dedupRuns,
                 expandStatus, expandWrote>>
  /\ UNCHANGED <<archVars, procVars, pipeVars, utilVars>>

(***************************************************************************)
(* Specification of the dedup tools.                                       *)
(***************************************************************************)
\* no packaging run in progress
ArchIdle ==
  /\ pc = "idle"
  /\ manifestFile = <<>>
  /\ canonicalDir = <<>>
  /\ libSrc = <<>>
  /\ tree = <<>>
  /\ skipped = {}
  /\ tarFile = AbsentFile
  /\ issues = <<>>
  /\ zstFile = "absent"

ExpandIdle ==
  /\ keepHardlinks = FALSE
  /\ archive = AbsentFile
  /\ outputDir = <<>>
  /\ extractedRoot = NoResult

UpdateIdle == manifestJson = AbsentFile

DownloadIdle ==
  /\ platformKey = "none"
  /\ verifyChecksums = TRUE
  /\ expectedChecksum = NoResult
  /\ dbChecksum = NoResult
  /\ downloads = <<>>
  /\ attempts = <<>>
  /\ extracted = NoResult
  /\ returned = NoResult

FetchIdle ==
  /\ fetchUrl = NoResult
  /\ fetchDir = <<>>
  /\ fetchExc = "none"

\* no utility runs
UtilIdle ==
  /\ ExpandIdle
  /\ UpdateIdle
  /\ DownloadIdle
  /\ FetchIdle

ProcIdle ==
  /\ exitCode = <<>>
  /\ zstandard = "untried"

\* neither the pipeline, nor a splitter, nor a join helper runs
PipeIdle ==
  /\ tool = "none"
  /\ stage = "idle"
  /\ strippedBin = <<>>
  /\ libClang = <<>>
  /\ manifestData = NoResult
  /\ hardlinked = <<>>
  /\ workTar = AbsentFile
  /\ permIssues = <<>>
  /\ finalArchiveBound = FALSE
  /\ chunksRead = 0
  /\ outDir = <<>>
  /\ artifact = <<>>
  /\ sizeArgMb = 0
  /\ pos = 0
  /\ parts = <<>>
  /\ splitReturned = "no"
  /\ joinDir = <<>>
  /\ joinExit = NoResult

\* files an earlier run left behind in a destination directory
StaleDirs == {[S -> {DataX}] : S \in {T \in SUBSET StalePool : Cardinality(T) <= MaxStale}}

InitDedup ==
  /\ UtilIdle
  /\ srcDir \in Dirs(NamePool, MaxFiles, Entries)
  /\ destCanonical \in UNION StaleDirs
  /\ destManifest = AbsentFile
  /\ outBin = destCanonical
  /\ dedupRuns = <<>>
  /\ expandStatus = "none"
  /\ expandWrote = {}
  /\ pipeOut = NoResult
  /\ ArchIdle
  /\ ProcIdle
  /\ PipeIdle

NextDedup ==
  \/ CreateDedupedStructure
  \/ ExpandDedupedStructure
  \/ DeduplicateBinaries

SpecDedup == InitDedup /\ [][NextDedup]_vars

(***************************************************************************)
(* create_hardlink_archive.py: hard-link layout, tar, permission check     *)
(* (create_tar_archive and verify_tar_permissions are the same text in     *)
(* fetch_and_archive.py)                                                   *)
(***************************************************************************)
MaxLibFiles == 2

ModeExec == 493   \* 0o755
ModeData == 420   \* 0o644
SrcModes == {ModeData, ModeExec}

\* member.mode & 0o100
UserExecBit(mode) == (mode \div 64) % 2 = 1

Root == <<"R">>
BinPath(name) == Root \o <<"/", "b", "i", "n", "/">> \o name
LibH == Root \o <<"/", "l", "i", "b", "/", "x", ".", "h">>
LibSo == Root \o <<"/", "l", "i", "b", "/", "y", ".", "s", "o">>
LibSoVer == Root \o <<"/", "l", "i", "b", "/", "y", ".", "s", "o", ".", "1">>
LibBinTool == Root \o <<"/", "l", "i", "b", "/", "b", "i", "n", "/", "t">>
LibBinH == Root \o <<"/", "l", "i", "b", "/", "b", "i", "n", "/", "x", ".", "h">>
LibOther == Root \o <<"/", "l", "i", "b", "/", "z", ".", "l", "i", "b">>
LibPool == {LibH, LibSo, LibSoVer, LibBinTool, LibBinH, LibOther}

ExePool == {A_exe, AB_exe, B_exe}

SlashBin == <<"/", "b", "i", "n", "/">>
SlashLib == <<"/", "l", "i", "b", "/">>
HeaderSuffixes == {<<".", "h">>,
                   <<".", "i", "n", "c">>,
                   <<".", "m", "o", "d", "u", "l", "e", "m", "a", "p">>,
                   <<".", "t", "c", "c">>,
                   <<".", "t", "x", "t">>,
                   <<".", "a">>,
                   <<".", "s", "y", "m", "s">>}
SharedSuffixes == {<<".", "s", "o">>, <<".", "d", "y", "l", "i", "b">>}
DotSoDot == <<".", "s", "o", ".">>
LibBinExcluded == {<<".", "h">>,
                   <<".", "i", "n", "c">>,
                   <<".", "t", "x", "t">>,
                   <<".", "a">>,
                   <<".", "s", "o">>,
                   <<".", "d", "y", "l", "i", "b">>}

EndsWithAny(name, suffixes) == \E x \in suffixes : EndsWith(name, x)

\* sorted(manifest.items()): keys are unique, so the order is the key order
ItemLess(x, y) == StrLess(x[1], y[1])
SortedItems(items) == SortSeq(items, ItemLess)

\* shutil.copy2(src, dst): content and mode of src; an existing dst keeps its inode
Copy2(t, src, dst) ==
  [p \in DOMAIN t \cup {dst} |->
     IF p = dst
     THEN [data |-> src.data, mode |-> src.mode,
           ino |-> IF dst \in DOMAIN t THEN t[dst].ino ELSE dst]
     ELSE IF dst \in DOMAIN t /\ t[p].ino = t[dst].ino
          THEN [t[p] EXCEPT !.data = src.data, !.mode = src.mode]
          ELSE t[p]]

LinkAsNewFile(t, first, dst) ==
  [p \in DOMAIN t \cup {dst} |-> IF p = dst THEN [t[first] EXCEPT !.ino = dst] ELSE t[p]]

\* dst.unlink() if it exists, then os.link(first_copy, dst)
Link(t, first, dst) ==
  [p \in DOMAIN t \cup {dst} |-> IF p = dst THEN t[first] ELSE t[p]]

Unlink(t, dst) == [p \in DOMAIN t \ {dst} |-> t[p]]

\* the loop of create_hardlink_structure over sorted(manifest.items());
\* linkFails are the names for which os.link raises OSError
RECURSIVE HardlinkLoop(_, _, _, _)
HardlinkLoopNoFallback(items, cdir, linkFails, acc) ==
  IF items = <<>> THEN acc
  ELSE LET filename == Head(items)[1]
           canonical_name == Head(items)[2]
           dst == BinPath(filename)
       IN  IF canonical_name \notin DOMAIN cdir
           THEN HardlinkLoop(Tail(items), cdir, linkFails,
                             [acc EXCEPT !.skipped = @ \cup {filename}])
           ELSE IF canonical_name \notin DOMAIN acc.copied
           THEN HardlinkLoop(Tail(items), cdir, linkFails,
                  [acc EXCEPT !.tree = Copy2(@, cdir[canonical_name], dst),
                              !.copied = (canonical_name :> dst) @@ @])
           ELSE HardlinkLoop(Tail(items), cdir, linkFails,
                  [acc EXCEPT !.tree =
                     IF filename \in linkFails
                     THEN Unlink(@, dst)
                     ELSE Link(Unlink(@, dst), acc.copied[canonical_name], dst)])

HardlinkLoop(items, cdir, linkFails, acc) ==
  IF items = <<>> THEN acc
  ELSE LET filename == Head(items)[1]
           canonical_name == Head(items)[2]
           dst == BinPath(filename)
       IN  IF canonical_name \notin DOMAIN cdir
           THEN HardlinkLoop(Tail(items), cdir, linkFails,
                             [acc EXCEPT !.skipped = @ \cup {filename}])
           ELSE IF canonical_name \notin DOMAIN acc.copied
           THEN HardlinkLoop(Tail(items), cdir, linkFails,
                  [acc EXCEPT !.tree = Copy2(@, cdir[canonical_name], dst),
                              !.copied = (canonical_name :> dst) @@ @])
           ELSE HardlinkLoop(Tail(items), cdir, linkFails,
                  [acc EXCEPT !.tree =
                     IF filename \in linkFails
                     THEN Copy2(Unlink(@, dst), cdir[canonical_name], dst)
                     ELSE Link(Unlink(@, dst), acc.copied[canonical_name], dst)])

\* if lib_src.exists(): shutil.rmtree(lib_dst); shutil.copytree(lib_src, lib_dst)
CopyLib(t, lib) ==
  LET kept == {p \in DOMAIN t : ~StartsWith(p, Root \o SlashLib)}
  IN  IF DOMAIN lib = {} THEN t
      ELSE [p \in kept \cup DOMAIN lib |->
              IF p \in DOMAIN lib THEN [data |-> Empty, mode |-> lib[p], ino |-> p]
              ELSE t[p]]

CreateHardlinkStructure ==
  /\ pc = "start"
  /\ \E linkFails \in SUBSET Keys(manifestFile) :
       LET r == HardlinkLoop(SortedItems(manifestFile), canonicalDir, linkFails,
                             [tree |-> tree, copied |-> <<>>, skipped |-> {}])
       IN  /\ tree' = CopyLib(r.tree, libSrc)
           /\ skipped' = r.skipped
  /\ pc' = "hardlinked"
  /\ UNCHANGED <<manifestFile, canonicalDir, libSrc, tarFile, issues, zstFile>>
  /\ UNCHANGED <<dedupVars, procVars, pipeVars, utilVars>>

\* verify_hardlinks only reports; main() discards its result
VerifyHardlinks ==
  /\ pc = "hardlinked"
  /\ pc' = "links_verified"
  /\ UNCHANGED <<manifestFile, canonicalDir, libSrc, tree, skipped, tarFile, issues, zstFile>>
  /\ UNCHANGED <<dedupVars, procVars, pipeVars, utilVars>>

TarFilterModeNoHeaderRule(name, mode) ==
  IF Contains(name, SlashBin) /\ ~Contains(name, SlashLib) THEN ModeExec
  ELSE IF Contains(name, SlashLib)
  THEN IF EndsWithAny(name, SharedSuffixes) \/ Contains(name, DotSoDot) THEN ModeExec
       ELSE IF Contains(name, SlashBin) /\ ~EndsWithAny(name, LibBinExcluded) THEN ModeExec
       ELSE mode
  ELSE mode

\* tar_filter on a regular-file member: the mode it leaves in tarinfo.mode
TarFilterMode(name, mode) ==
  IF Contains(name, SlashBin) /\ ~Contains(name, SlashLib) THEN ModeExec
  ELSE IF Contains(name, SlashLib)
  THEN IF EndsWithAny(name, HeaderSuffixes) THEN ModeData
       ELSE IF EndsWithAny(name, SharedSuffixes) \/ Contains(name, DotSoDot) THEN ModeExec
       ELSE IF Contains(name, SlashBin) /\ ~EndsWithAny(name, LibBinExcluded) THEN ModeExec
       ELSE mode
  ELSE mode

\* TarFile.add walks sorted(os.listdir(...))
PathsInOrder(t) == SortedSet(DOMAIN t)

\* tar.add(source_dir, filter=tar_filter): a path whose inode was already
\* added becomes a link member, which the filter leaves alone
TarMembers(t) ==
  LET paths == PathsInOrder(t)
  IN  [i \in 1..Len(paths) |->
         IF \E j \in 1..(i - 1) : t[paths[j]].ino = t[paths[i]].ino
         THEN [name |-> paths[i], type |-> "link", mode |-> t[paths[i]].mode]
         ELSE [name |-> paths[i], type |-> "file",
               mode |-> TarFilterMode(paths[i], t[paths[i]].mode)]]

CreateTarArchive ==
  /\ pc = "links_verified"
  /\ tarFile' = [status |-> "written", members |-> TarMembers(tree)]
  /\ pc' = "tarred"
  /\ UNCHANGED <<manifestFile, canonicalDir, libSrc, tree, skipped, issues, zstFile>>
  /\ UNCHANGED <<dedupVars, procVars, pipeVars, utilVars>>

\* the issue verify_tar_permissions appends for one member, or <<>>
MemberIssue(m) ==
  IF m.type # "file" THEN <<>>
  ELSE IF Contains(m.name, SlashBin)
  THEN IF ~UserExecBit(m.mode) THEN <<[name |-> m.name, issue |-> "binary missing executable"]>>
       ELSE <<>>
  ELSE IF Contains(m.name, SlashLib)
  THEN IF EndsWithAny(m.name, HeaderSuffixes)
       THEN IF UserExecBit(m.mode)
            THEN <<[name |-> m.name, issue |-> "header/static lib has executable bit"]>>
            ELSE <<>>
       ELSE IF EndsWithAny(m.name, SharedSuffixes) \/ Contains(m.name, DotSoDot)
       THEN IF ~UserExecBit(m.mode)
            THEN <<[name |-> m.name, issue |-> "shared lib missing executable"]>>
            ELSE <<>>
       ELSE IF Contains(m.name, SlashBin) /\ ~EndsWithAny(m.name, LibBinExcluded)
       THEN IF ~UserExecBit(m.mode)
            THEN <<[name |-> m.name, issue |-> "lib binary missing executable"]>>
            ELSE <<>>
       ELSE <<>>
  ELSE <<>>

IssuesFoundFirstOnly(members) ==
  LET all == Flatten([i \in 1..Len(members) |-> MemberIssue(members[i])])
  IN  IF all = <<>> THEN <<>> ELSE <<Head(all)>>

IssuesFound(members) == Flatten([i \in 1..Len(members) |-> MemberIssue(members[i])])

\* raises RuntimeError when issues_found is not empty; main() does not catch
\* it, so the interpreter prints the traceback and exits with status 1
VerifyTarPermissions ==
  /\ pc = "tarred"
  /\ issues' = IssuesFound(tarFile.members)
  /\ pc' = IF issues' # <<>> THEN "failed" ELSE "perms_verified"
  /\ exitCode' = IF issues' # <<>> THEN <<1>> ELSE exitCode
  /\ UNCHANGED <<manifestFile, canonicalDir, libSrc, tree, skipped, tarFile, zstFile>>
  /\ UNCHANGED <<dedupVars, zstandard, pipeVars, utilVars>>

\* compress_with_zstd and the removal of the tar; an ImportError of
\* zstandard is caught by main(), which then ends normally
CompressWithZstd ==
  /\ pc = "perms_verified"
  /\ \E zstandardInstalled \in BOOLEAN :
       IF zstandardInstalled
       THEN /\ zstFile' = "compressed"
            /\ tarFile' = AbsentFile
            /\ pc' = "done"
            /\ zstandard' = "imported"
       ELSE /\ pc' = "done_uncompressed"
            /\ zstandard' = "ImportError"
            /\ UNCHANGED <<zstFile, tarFile>>
  /\ exitCode' = <<0>>
  /\ UNCHANGED <<manifestFile, canonicalDir, libSrc, tree, skipped, issues>>
  /\ UNCHANGED <<dedupVars, pipeVars, utilVars>>

(***************************************************************************)
(* Specification of one run of create_hardlink_archive.py on a deduped     *)
(* structure built from a directory of executables.                        *)
(***************************************************************************)
ExeFiles == {FileOf(DataX), FileOf(DataY)}

ListingOf(dir) == SortedSet(DOMAIN dir)

\* the canonical directory as found on disk: some canonical files may be
\* missing, each file has the mode it was extracted with
CanonicalDirs(dir, manifest) ==
  UNION {[S -> {[data |-> d, mode |-> m] : d \in Contents, m \in SrcModes}]
           : S \in SUBSET Values(manifest)}

StaleTrees ==
  {[p \in {BinPath(n) : n \in DOMAIN st} |->
      [data |-> st[CHOOSE n \in DOMAIN st : BinPath(n) = p], mode |-> ModeData, ino |-> p]]
     : st \in UNION StaleDirs}

LibDirs ==
  UNION {[S -> SrcModes] : S \in {T \in SUBSET LibPool : Cardinality(T) <= MaxLibFiles}}

DedupIdle ==
  /\ destCanonical = <<>>
  /\ destManifest = AbsentFile
  /\ outBin = <<>>
  /\ dedupRuns = <<>>
  /\ expandStatus = "none"
  /\ expandWrote = {}
  /\ pipeOut = NoResult

InitArchive ==
  /\ UtilIdle
  /\ srcDir \in Dirs(ExePool, MaxFiles, ExeFiles)
  /\ DedupIdle
  /\ manifestFile = BuildManifest(GroupByHash(srcDir, ListingOf(srcDir), <<>>))
  /\ canonicalDir \in {c \in CanonicalDirs(srcDir, manifestFile) :
                         \A n \in DOMAIN c : c[n].data = srcDir[n].data}
  /\ libSrc \in LibDirs
  /\ tree \in StaleTrees
  /\ pc = "start"
  /\ skipped = {}
  /\ tarFile = AbsentFile
  /\ issues = <<>>
  /\ zstFile = "absent"
  /\ ProcIdle
  /\ PipeIdle

NextArchive ==
  \/ CreateHardlinkStructure
  \/ VerifyHardlinks
  \/ CreateTarArchive
  \/ VerifyTarPermissions
  \/ CompressWithZstd

SpecArchive == InitArchive /\ [][NextArchive]_vars

(***************************************************************************)
(* fetch_and_archive.py main(): steps 4 to 9 and the cleanup of one run    *)
(* with --source-dir unset on a platform other than Windows (no MinGW      *)
(* integration).  stage names the call main() is about to make.  An        *)
(* exception in flight inside main()'s try block is a stage of its own:    *)
(* "raise_KeyboardInterrupt" or "raise_Exception".                         *)
(***************************************************************************)
MaxTarChunks == 2
MaxArtifactMb == 250
BytesPerMB == 2

\* max_size_mb=99 in main()'s call of split_archive
MaxSizeMb == 99

ClangRoot == Root \o <<"/", "l", "i", "b", "/", "c", "l", "a", "n", "g", "/">>
ClangH == ClangRoot \o <<"x", ".", "h">>
ClangBinTool == ClangRoot \o <<"b", "i", "n", "/", "t">>
ClangBinH == ClangRoot \o <<"b", "i", "n", "/", "x", ".", "h">>
ClangBinA == ClangRoot \o <<"b", "i", "n", "/", "y", ".", "a">>
ClangPool == {ClangH, ClangBinTool, ClangBinH, ClangBinA}

\* f"{archive_name}.tar.zst"
ArchiveFile == <<"a", ".", "t", "a", "r", ".", "z", "s", "t">>

\* a file of the output directory: what wrote it, whether the writer
\* finished, and its bytes
ZstPartial == [kind |-> "zstd", status |-> "partial", data |-> <<>>]
ZstComplete(data) == [kind |-> "zstd", status |-> "complete", data |-> data]

WriteFile(dir, name, file) ==
  [n \in DOMAIN dir \cup {name} |-> IF n = name THEN file ELSE dir[n]]

RemoveFile(dir, name) == [n \in DOMAIN dir \ {name} |-> dir[n]]

\* bytes of an artifact of n bytes; the value of a byte tells its offset
ArtifactOfSize(n) == [i \in 1..n |-> i % 256]

\* sizes of the compressed archive around the 99 MB limit of step 9
PipelineSizes ==
  {1, MaxSizeMb * BytesPerMB, MaxSizeMb * BytesPerMB + 1, MaxArtifactMb * BytesPerMB}

\* shutil.copytree(lib_clang_src, lib_dst, dirs_exist_ok=True)
RECURSIVE CopyTree(_, _, _)
CopyTree(t, lib, paths) ==
  IF paths = <<>> THEN t
  ELSE CopyTree(Copy2(t, [data |-> Empty, mode |-> lib[Head(paths)]], Head(paths)),
                lib, Tail(paths))

BinDirOf(bin) == [n \in DOMAIN bin |-> FileOf(bin[n].data)]

\* step 4; an exception of deduplicate_binaries leaves manifest_data unbound
MainDeduplicate ==
  /\ tool = "fetch_and_archive"
  /\ stage = "deduplicate_binaries"
  /\ LET r == DeduplicateBinariesResult(BinDirOf(strippedBin))
     IN  IF r.status = "error"
         THEN /\ stage' = "raise_Exception"
              /\ UNCHANGED <<manifestData, destManifest>>
         ELSE \* json.dump(manifest_data, f) to stripped/dedup_manifest.json
              /\ stage' = "create_hardlink_structure"
              /\ manifestData' = r
              /\ destManifest' = r
  /\ UNCHANGED <<tool, strippedBin, libClang, hardlinked, workTar, permIssues,
                 finalArchiveBound, chunksRead, outDir, artifact, sizeArgMb,
                 pos, parts, splitReturned, joinDir, joinExit>>
  /\ UNCHANGED <<srcDir, destCanonical, outBin, dedupRuns, expandStatus, expandWrote, pipeOut>>
  /\ UNCHANGED <<archVars, procVars, utilVars>>

\* step 5 and the copy of lib/clang
MainCreateHardlinkStructure ==
  /\ tool = "fetch_and_archive"
  /\ stage = "create_hardlink_structure"
  /\ \E linkFails \in SUBSET Keys(manifestData.manifest) :
       LET r == HardlinkLoop(SortedItems(manifestData.manifest), strippedBin, linkFails,
                             [tree |-> hardlinked, copied |-> <<>>, skipped |-> {}])
       IN  hardlinked' = CopyTree(r.tree, libClang, SortedSet(DOMAIN libClang))
  /\ stage' = "create_tar_archive"
  /\ UNCHANGED <<tool, strippedBin, libClang, manifestData, workTar, permIssues,
                 finalArchiveBound, chunksRead, outDir, artifact, sizeArgMb,
                 pos, parts, splitReturned, joinDir, joinExit>>
  /\ UNCHANGED <<dedupVars, archVars, procVars, utilVars>>

\* Ctrl+C while create_hardlink_structure has handled only the first k items
InterruptExpansion ==
  /\ tool = "fetch_and_archive"
  /\ stage = "create_hardlink_structure"
  /\ LET items == SortedItems(manifestData.manifest)
     IN  \E k \in 0..(Len(items) - 1) :
           hardlinked' = HardlinkLoop(SubSeq(items, 1, k), strippedBin, {},
                                      [tree |-> hardlinked, copied |-> <<>>,
                                       skipped |-> {}]).tree
  /\ stage' = "raise_KeyboardInterrupt"
  /\ UNCHANGED <<tool, strippedBin, libClang, manifestData, workTar, permIssues,
                 finalArchiveBound, chunksRead, outDir, artifact, sizeArgMb,
                 pos, parts, splitReturned, joinDir, joinExit>>
  /\ UNCHANGED <<dedupVars, archVars, procVars, utilVars>>

\* step 6; the tar needs `chunks` reads of 1 MB in step 7
MainCreateTarArchive ==
  /\ tool = "fetch_and_archive"
  /\ stage = "create_tar_archive"
  /\ \E n \in 1..MaxTarChunks :
       workTar' = [status |-> "written", members |-> TarMembers(hardlinked), chunks |-> n]
  /\ stage' = "verify_tar_permissions"
  /\ UNCHANGED <<tool, strippedBin, libClang, manifestData, hardlinked, permIssues,
                 finalArchiveBound, chunksRead, outDir, artifact, sizeArgMb,
                 pos, parts, splitReturned, joinDir, joinExit>>
  /\ UNCHANGED <<dedupVars, archVars, procVars, utilVars>>

\* Ctrl+C while tar.add has written only the first k members
InterruptTar ==
  /\ tool = "fetch_and_archive"
  /\ stage = "create_tar_archive"
  /\ LET members == TarMembers(hardlinked)
     IN  \E k \in 0..(Len(members) - 1) :
           workTar' = [status |-> "partial", members |-> SubSeq(members, 1, k), chunks |-> 0]
  /\ stage' = "raise_KeyboardInterrupt"
  /\ UNCHANGED <<tool, strippedBin, libClang, manifestData, hardlinked, permIssues,
                 finalArchiveBound, chunksRead, outDir, artifact, sizeArgMb,
                 pos, parts, splitReturned, joinDir, joinExit>>
  /\ UNCHANGED <<dedupVars, archVars, procVars, utilVars>>

\* step 6.5: RuntimeError when issues_found is not empty
MainVerifyTarPermissions ==
  /\ tool = "fetch_and_archive"
  /\ stage = "verify_tar_permissions"
  /\ permIssues' = IssuesFound(workTar.members)
  /\ stage' = IF permIssues' # <<>> THEN "raise_Exception" ELSE "compress_with_zstd"
  /\ UNCHANGED <<tool, strippedBin, libClang, manifestData, hardlinked, workTar,
                 finalArchiveBound, chunksRead, outDir, artifact, sizeArgMb,
                 pos, parts, splitReturned, joinDir, joinExit>>
  /\ UNCHANGED <<dedupVars, archVars, procVars, utilVars>>

\* step 7: final_archive is bound, then compress_with_zstd imports zstandard
\* and opens the output file for writing
CompressOpen ==
  /\ tool = "fetch_and_archive"
  /\ stage = "compress_with_zstd"
  /\ finalArchiveBound' = TRUE
  /\ \E installed \in BOOLEAN :
       IF installed
       THEN /\ zstandard' = "imported"
            /\ outDir' = WriteFile(outDir, ArchiveFile, ZstPartial)
            /\ chunksRead' = 0
            /\ stage' = "compress_loop"
       ELSE /\ zstandard' = "ImportError"
            /\ stage' = "raise_Exception"
            /\ UNCHANGED <<outDir, chunksRead>>
  /\ UNCHANGED <<tool, strippedBin, libClang, manifestData, hardlinked, workTar,
                 permIssues, artifact, sizeArgMb, pos, parts, splitReturned, joinDir, joinExit>>
  /\ UNCHANGED <<dedupVars, archVars, exitCode, utilVars>>

\* chunk = ifh.read(chunk_size); compressor.write(chunk)
CompressChunk ==
  /\ tool = "fetch_and_archive"
  /\ stage = "compress_loop"
  /\ chunksRead < workTar.chunks
  /\ chunksRead' = chunksRead + 1
  /\ UNCHANGED <<tool, stage, strippedBin, libClang, manifestData, hardlinked, workTar,
                 permIssues, finalArchiveBound, outDir, artifact, sizeArgMb,
                 pos, parts, splitReturned, joinDir, joinExit>>
  /\ UNCHANGED <<dedupVars, archVars, procVars, utilVars>>

\* the read returns b"": the with block flushes and closes the output
CompressFinish ==
  /\ tool = "fetch_and_archive"
  /\ stage = "compress_loop"
  /\ chunksRead = workTar.chunks
  /\ \E n \in PipelineSizes :
       /\ artifact' = ArtifactOfSize(n)
       /\ outDir' = WriteFile(outDir, ArchiveFile, ZstComplete(artifact'))
  /\ stage' = "generate_checksums"
  /\ UNCHANGED <<tool, strippedBin, libClang, manifestData, hardlinked, workTar,
                 permIssues, finalArchiveBound, chunksRead, sizeArgMb,
                 pos, parts, splitReturned, joinDir, joinExit>>
  /\ UNCHANGED <<dedupVars, archVars, procVars, utilVars>>

\* except KeyboardInterrupt of compress_with_zstd: unlink the output, re-raise
CompressInterrupt ==
  /\ tool = "fetch_and_archive"
  /\ stage = "compress_loop"
  /\ outDir' = RemoveFile(outDir, ArchiveFile)
  /\ stage' = "raise_KeyboardInterrupt"
  /\ UNCHANGED <<tool, strippedBin, libClang, manifestData, hardlinked, workTar,
                 permIssues, finalArchiveBound, chunksRead, artifact, sizeArgMb,
                 pos, parts, splitReturned, joinDir, joinExit>>
  /\ UNCHANGED <<dedupVars, archVars, procVars, utilVars>>

\* Ctrl+C in a step of main() that has written nothing of its own yet
MainSteps ==
  {"deduplicate_binaries", "create_hardlink_structure", "create_tar_archive",
   "verify_tar_permissions", "compress_with_zstd", "generate_checksums",
   "split_archive", "split_loop", "cleanup"}

InterruptMain ==
  /\ tool = "fetch_and_archive"
  /\ stage \in MainSteps
  /\ stage' = "raise_KeyboardInterrupt"
  /\ UNCHANGED <<tool, strippedBin, libClang, manifestData, hardlinked, workTar,
                 permIssues, finalArchiveBound, chunksRead, outDir, artifact,
                 sizeArgMb, pos, parts, splitReturned, joinDir, joinExit>>
  /\ UNCHANGED <<dedupVars, archVars, procVars, utilVars>>

\* except KeyboardInterrupt of main()
MainExceptKeyboardInterrupt ==
  /\ tool = "fetch_and_archive"
  /\ stage = "raise_KeyboardInterrupt"
  /\ outDir' = IF finalArchiveBound /\ ArchiveFile \in DOMAIN outDir
               THEN RemoveFile(outDir, ArchiveFile)
               ELSE outDir
  /\ exitCode' = <<130>>
  /\ stage' = "exited"
  /\ UNCHANGED <<tool, strippedBin, libClang, manifestData, hardlinked, workTar,
                 permIssues, finalArchiveBound, chunksRead, artifact, sizeArgMb,
                 pos, parts, splitReturned, joinDir, joinExit>>
  /\ UNCHANGED <<dedupVars, archVars, zstandard, utilVars>>

\* except Exception of main()
MainExceptException ==
  /\ tool = "fetch_and_archive"
  /\ stage = "raise_Exception"
  /\ exitCode' = <<1>>
  /\ stage' = "exited"
  /\ UNCHANGED <<tool, strippedBin, libClang, manifestData, hardlinked, workTar,
                 permIssues, finalArchiveBound, chunksRead, outDir, artifact,
                 sizeArgMb, pos, parts, splitReturned, joinDir, joinExit>>
  /\ UNCHANGED <<dedupVars, archVars, zstandard, utilVars>>

(***************************************************************************)
(* Steps 8 and 9 of fetch_and_archive.py: checksum sidecars and the        *)
(* splitter with its generated join helpers.                               *)
(***************************************************************************)
\* hashlib digests: fixed functions of the bytes without collisions
Sha256(data) == <<"sha256", data>>
Md5Hex(data) == <<"md5", data>>

DotSha256 == <<".", "s", "h", "a", "2", "5", "6">>
DotMd5 == <<".", "m", "d", "5">>
DotPart == <<".", "p", "a", "r", "t">>
DotJoin == <<".", "j", "o", "i", "n">>
DotJoinPy == DotJoin \o <<".", "p", "y">>

\* f"{sha256} *{archive_path.name}\n"
SidecarLine(digest, name) ==
  [kind |-> "sidecar", status |-> "complete", digest |-> digest, sep |-> " *", name |-> name]

Digits == <<"0", "1", "2", "3", "4", "5", "6", "7", "8", "9">>

\* str(part_num) as the f-string formats it
RECURSIVE Decimal(_)
Decimal(n) ==
  IF n < 10 THEN <<Digits[n + 1]>>
  ELSE Decimal(n \div 10) \o <<Digits[(n % 10) + 1]>>

PartNameFromZero(name, part_num) == name \o DotPart \o Decimal(part_num - 1)

\* f"{archive_path.name}.part{part_num}"
PartName(name, part_num) == name \o DotPart \o Decimal(part_num)

PartFile(status, data) == [kind |-> "part", status |-> status, data |-> data]

ReadChunkRereadsBoundary(data, at, n) ==
  SubSeq(data, IF at = 0 THEN 1 ELSE at, IF at + n < Len(data) THEN at + n ELSE Len(data))

\* f.read(n) at offset pos: b"" at end of file or for n = 0, the rest of
\* the file for a negative n
ReadChunk(data, at, n) ==
  IF n < 0 THEN SubSeq(data, at + 1, Len(data))
  ELSE SubSeq(data, at + 1, IF at + n < Len(data) THEN at + n ELSE Len(data))

\* int((max_size_mb - 1) * 1024 * 1024): 1 MB below the limit
FaPartSizeAtLimit(max_size_mb) == max_size_mb * BytesPerMB

FaPartSize(max_size_mb) == (max_size_mb - 1) * BytesPerMB

\* the generated helpers: `cat part1 part2 ... > name` and the Python loop
JoinScript(lang, names, output) ==
  [kind |-> "script", status |-> "complete", lang |-> lang, parts |-> names,
   output |-> output]

PathsOf(ps) == [i \in 1..Len(ps) |-> ps[i].path]

\* step 8
GetFileHashOfFirstByte(dir, filepath, algorithm) ==
  IF algorithm = "sha256" THEN Sha256(SubSeq(dir[filepath].data, 1, 1))
  ELSE Md5Hex(SubSeq(dir[filepath].data, 1, 1))

\* get_file_hash: the digest of everything f.read returns until b""
GetFileHash(dir, filepath, algorithm) ==
  IF algorithm = "sha256" THEN Sha256(dir[filepath].data) ELSE Md5Hex(dir[filepath].data)

MainGenerateChecksums ==
  /\ tool = "fetch_and_archive"
  /\ stage = "generate_checksums"
  /\ outDir' = WriteFile(WriteFile(outDir, ArchiveFile \o DotSha256,
                                   SidecarLine(GetFileHash(outDir, ArchiveFile, "sha256"),
                                               ArchiveFile)),
                         ArchiveFile \o DotMd5,
                         SidecarLine(GetFileHash(outDir, ArchiveFile, "md5"), ArchiveFile))
  /\ sizeArgMb' = MaxSizeMb
  /\ stage' = "split_archive"
  /\ UNCHANGED <<tool, strippedBin, libClang, manifestData, hardlinked, workTar,
                 permIssues, finalArchiveBound, chunksRead, artifact,
                 pos, parts, splitReturned, joinDir, joinExit>>
  /\ UNCHANGED <<dedupVars, archVars, procVars, utilVars>>

\* Ctrl+C after the .sha256 file was written and before the .md5 file is
InterruptChecksums ==
  /\ tool = "fetch_and_archive"
  /\ stage = "generate_checksums"
  /\ outDir' = WriteFile(outDir, ArchiveFile \o DotSha256,
                         SidecarLine(Sha256(outDir[ArchiveFile].data), ArchiveFile))
  /\ stage' = "raise_KeyboardInterrupt"
  /\ UNCHANGED <<tool, strippedBin, libClang, manifestData, hardlinked, workTar,
                 permIssues, finalArchiveBound, chunksRead, artifact, sizeArgMb,
                 pos, parts, splitReturned, joinDir, joinExit>>
  /\ UNCHANGED <<dedupVars, archVars, procVars, utilVars>>

\* step 9, up to the first read: no split when size_mb <= max_size_mb
FaSplitCheck ==
  /\ tool = "fetch_and_archive"
  /\ stage = "split_archive"
  /\ IF Len(outDir[ArchiveFile].data) <= sizeArgMb * BytesPerMB
     THEN /\ splitReturned' = "None"
          /\ stage' = "cleanup"
     ELSE /\ splitReturned' = "no"
          /\ stage' = "split_loop"
  /\ pos' = 0
  /\ parts' = <<>>
  /\ UNCHANGED <<tool, strippedBin, libClang, manifestData, hardlinked, workTar,
                 permIssues, finalArchiveBound, chunksRead, outDir, artifact,
                 sizeArgMb, joinDir, joinExit>>
  /\ UNCHANGED <<dedupVars, archVars, procVars, utilVars>>

\* one pass of the loop that finds a chunk: the part file is written and
\* its path appended
FaSplitPart ==
  /\ tool = "fetch_and_archive"
  /\ stage = "split_loop"
  /\ LET chunk == ReadChunk(outDir[ArchiveFile].data, pos, FaPartSize(sizeArgMb))
         part_name == PartName(ArchiveFile, Len(parts) + 1)
     IN  /\ chunk # <<>>
         /\ outDir' = WriteFile(outDir, part_name, PartFile("complete", chunk))
         /\ parts' = Append(parts, [path |-> part_name])
         /\ pos' = pos + Len(chunk)
  /\ UNCHANGED <<tool, stage, strippedBin, libClang, manifestData, hardlinked, workTar,
                 permIssues, finalArchiveBound, chunksRead, artifact, sizeArgMb,
                 splitReturned, joinDir, joinExit>>
  /\ UNCHANGED <<dedupVars, archVars, procVars, utilVars>>

\* Ctrl+C while pf.write(chunk) has written only the first half of the chunk
InterruptSplitPart ==
  /\ tool = "fetch_and_archive"
  /\ stage = "split_loop"
  /\ LET chunk == ReadChunk(outDir[ArchiveFile].data, pos, FaPartSize(sizeArgMb))
         part_name == PartName(ArchiveFile, Len(parts) + 1)
     IN  /\ chunk # <<>>
         /\ outDir' = WriteFile(outDir, part_name,
                                PartFile("partial", SubSeq(chunk, 1, Len(chunk) \div 2)))
  /\ stage' = "raise_KeyboardInterrupt"
  /\ UNCHANGED <<tool, strippedBin, libClang, manifestData, hardlinked, workTar,
                 permIssues, finalArchiveBound, chunksRead, artifact, sizeArgMb,
                 pos, parts, splitReturned, joinDir, joinExit>>
  /\ UNCHANGED <<dedupVars, archVars, procVars, utilVars>>

\* the read returns b"": both join helpers are written, then the original
\* archive is unlinked and the list of parts returned
FaSplitFinish ==
  /\ tool = "fetch_and_archive"
  /\ stage = "split_loop"
  /\ ReadChunk(outDir[ArchiveFile].data, pos, FaPartSize(sizeArgMb)) = <<>>
  /\ outDir' =
       RemoveFile(
         WriteFile(WriteFile(outDir, ArchiveFile \o DotJoin,
                             JoinScript("bash", PathsOf(parts), ArchiveFile)),
                   ArchiveFile \o DotJoinPy,
                   JoinScript("python", PathsOf(parts), ArchiveFile)),
         ArchiveFile)
  /\ splitReturned' = "parts"
  /\ stage' = "cleanup"
  /\ UNCHANGED <<tool, strippedBin, libClang, manifestData, hardlinked, workTar,
                 permIssues, finalArchiveBound, chunksRead, artifact, sizeArgMb,
                 pos, parts, joinDir, joinExit>>
  /\ UNCHANGED <<dedupVars, archVars, procVars, utilVars>>

\* the cleanup (no --keep-intermediate) and the final summary, which stats
\* every part, or the archive when `parts` is None or empty
MainCleanup ==
  /\ tool = "fetch_and_archive"
  /\ stage = "cleanup"
  /\ workTar' = AbsentFile
  /\ hardlinked' = <<>>
  /\ strippedBin' = <<>>
  /\ libClang' = <<>>
  /\ IF parts # <<>> \/ ArchiveFile \in DOMAIN outDir
     THEN /\ stage' = "exited"
          /\ exitCode' = <<0>>
     ELSE /\ stage' = "raise_Exception"
          /\ UNCHANGED exitCode
  /\ UNCHANGED <<tool, manifestData, permIssues, finalArchiveBound, chunksRead,
                 outDir, artifact, sizeArgMb, pos, parts, splitReturned,
                 joinDir, joinExit>>
  /\ UNCHANGED <<dedupVars, archVars, zstandard, utilVars>>

(***************************************************************************)
(* Specification of one run of fetch_and_archive.py from step 4 on.        *)
(***************************************************************************)
\* work/stripped/bin as strip_extras leaves it: every binary has the mode
\* the extraction gave it
StrippedBins ==
  {[n \in DOMAIN d |-> [data |-> d[n].data, mode |-> m]]
     : d \in Dirs(ExePool, MaxFiles, ExeFiles), m \in SrcModes}

ClangDirs ==
  UNION {[S -> SrcModes] : S \in {T \in SUBSET ClangPool : Cardinality(T) <= MaxLibFiles}}

InitPipeline ==
  /\ UtilIdle
  /\ srcDir = <<>>
  /\ DedupIdle
  /\ ArchIdle
  /\ ProcIdle
  /\ tool = "fetch_and_archive"
  /\ stage = "deduplicate_binaries"
  /\ strippedBin \in StrippedBins
  /\ libClang \in ClangDirs
  /\ manifestData = NoResult
  /\ hardlinked = <<>>
  /\ workTar = AbsentFile
  /\ permIssues = <<>>
  /\ finalArchiveBound = FALSE
  /\ chunksRead = 0
  /\ outDir = <<>>
  /\ artifact = <<>>
  /\ sizeArgMb = 0
  /\ pos = 0
  /\ parts = <<>>
  /\ splitReturned = "no"
  /\ joinDir = <<>>
  /\ joinExit = NoResult

NextPipeline ==
  \/ MainDeduplicate
  \/ MainCreateHardlinkStructure
  \/ InterruptExpansion
  \/ MainCreateTarArchive
  \/ InterruptTar
  \/ MainVerifyTarPermissions
  \/ CompressOpen
  \/ CompressChunk
  \/ CompressFinish
  \/ CompressInterrupt
  \/ MainGenerateChecksums
  \/ InterruptChecksums
  \/ FaSplitCheck
  \/ FaSplitPart
  \/ InterruptSplitPart
  \/ FaSplitFinish
  \/ MainCleanup
  \/ InterruptMain
  \/ MainExceptKeyboardInterrupt
  \/ MainExceptException

SpecPipeline == InitPipeline /\ [][NextPipeline]_vars

(***************************************************************************)
(* split_archive.py (run without --manifest) and the join helpers that     *)
(* step 9 of fetch_and_archive.py generates.                               *)
(***************************************************************************)
MaxSmallBytes == 5
MaxPartMb == 2

\* part_size_bytes = part_size_mb * 1024 * 1024
ToolPartSize(part_size_mb) == part_size_mb * BytesPerMB

\* hashlib.sha256(chunk).hexdigest()
ChunkDigestOfPrefix(data, at, chunk) == Sha256(SubSeq(data, 1, at + Len(chunk)))

ChunkDigest(data, at, chunk) == Sha256(chunk)

\* split_archive up to the open of the archive; FileNotFoundError when it
\* does not exist
ToolSplitOpen ==
  /\ tool = "split_archive.py"
  /\ stage = "split_archive"
  /\ stage' = IF ArchiveFile \in DOMAIN outDir THEN "split_loop" ELSE "raise_Exception"
  /\ pos' = 0
  /\ parts' = <<>>
  /\ UNCHANGED <<tool, strippedBin, libClang, manifestData, hardlinked, workTar,
                 permIssues, finalArchiveBound, chunksRead, outDir, artifact,
                 sizeArgMb, splitReturned, joinDir, joinExit>>
  /\ UNCHANGED <<dedupVars, archVars, procVars, utilVars>>

\* one pass of the loop that finds a chunk
ToolSplitPart ==
  /\ tool = "split_archive.py"
  /\ stage = "split_loop"
  /\ LET data == outDir[ArchiveFile].data
         chunk == ReadChunk(data, pos, ToolPartSize(sizeArgMb))
         part_name == PartName(ArchiveFile, Len(parts) + 1)
     IN  /\ chunk # <<>>
         /\ outDir' = WriteFile(outDir, part_name, PartFile("complete", chunk))
         /\ parts' = Append(parts, [path |-> part_name,
                                    sha256 |-> ChunkDigest(data, pos, chunk)])
         /\ pos' = pos + Len(chunk)
  /\ UNCHANGED <<tool, stage, strippedBin, libClang, manifestData, hardlinked, workTar,
                 permIssues, finalArchiveBound, chunksRead, artifact, sizeArgMb,
                 splitReturned, joinDir, joinExit>>
  /\ UNCHANGED <<dedupVars, archVars, procVars, utilVars>>

\* the read returns b"": split_archive returns the list and main() returns
\* 1 for an empty list, 0 otherwise
ToolSplitReturn ==
  /\ tool = "split_archive.py"
  /\ stage = "split_loop"
  /\ ReadChunk(outDir[ArchiveFile].data, pos, ToolPartSize(sizeArgMb)) = <<>>
  /\ splitReturned' = "parts"
  /\ exitCode' = IF parts = <<>> THEN <<1>> ELSE <<0>>
  /\ stage' = "exited"
  /\ UNCHANGED <<tool, strippedBin, libClang, manifestData, hardlinked, workTar,
                 permIssues, finalArchiveBound, chunksRead, outDir, artifact,
                 sizeArgMb, pos, parts, joinDir, joinExit>>
  /\ UNCHANGED <<dedupVars, archVars, zstandard, utilVars>>

\* except Exception of split_archive.py main(): return 1
ToolExceptException ==
  /\ tool = "split_archive.py"
  /\ stage = "raise_Exception"
  /\ exitCode' = <<1>>
  /\ stage' = "exited"
  /\ UNCHANGED <<tool, strippedBin, libClang, manifestData, hardlinked, workTar,
                 permIssues, finalArchiveBound, chunksRead, outDir, artifact,
                 sizeArgMb, pos, parts, splitReturned, joinDir, joinExit>>
  /\ UNCHANGED <<dedupVars, archVars, zstandard, utilVars>>

JoinedFile(data) == [kind |-> "joined", status |-> "complete", data |-> data]

\* cat part1 part2 ... > output: cat reports a missing operand on stderr
\* and goes on with the next one
RECURSIVE CatPresent(_, _)
CatPresent(names, dir) ==
  IF names = <<>> THEN <<>>
  ELSE (IF Head(names) \in DOMAIN dir THEN dir[Head(names)].data ELSE <<>>)
         \o CatPresent(Tail(names), dir)

\* for part in parts: out.write(open(part, 'rb').read()), up to the first
\* open that raises
RECURSIVE WriteUntilMissing(_, _)
WriteUntilMissing(names, dir) ==
  IF names = <<>> \/ Head(names) \notin DOMAIN dir THEN <<>>
  ELSE dir[Head(names)].data \o WriteUntilMissing(Tail(names), dir)

Range(f) == {f[i] : i \in DOMAIN f}

\* the directory of a consumer who fetched the helper and some of the parts
ConsumerDirs(script) == {[n \in S |-> outDir[n]] : S \in SUBSET Range(script.parts)}

\* bash <name>.join: the script has no `set -e` and ends with echo, so its
\* exit status is 0 whatever cat reported
JoinBash ==
  /\ tool = "fetch_and_archive"
  /\ stage = "exited"
  /\ joinExit = NoResult
  /\ (ArchiveFile \o DotJoin) \in DOMAIN outDir
  /\ LET script == outDir[ArchiveFile \o DotJoin]
     IN  \E dir \in ConsumerDirs(script) :
           joinDir' = WriteFile(dir, script.output, JoinedFile(CatPresent(script.parts, dir)))
  /\ joinExit' = [status |-> "exited", lang |-> "bash", code |-> 0]
  /\ UNCHANGED <<tool, stage, strippedBin, libClang, manifestData, hardlinked, workTar,
                 permIssues, finalArchiveBound, chunksRead, outDir, artifact,
                 sizeArgMb, pos, parts, splitReturned>>
  /\ UNCHANGED <<dedupVars, archVars, procVars, utilVars>>

\* python <name>.join.py: the output is opened for writing first; an open
\* of a missing part raises, the handler prints the error and exits 1
JoinPython ==
  /\ tool = "fetch_and_archive"
  /\ stage = "exited"
  /\ joinExit = NoResult
  /\ (ArchiveFile \o DotJoinPy) \in DOMAIN outDir
  /\ LET script == outDir[ArchiveFile \o DotJoinPy]
     IN  \E dir \in ConsumerDirs(script) :
           /\ joinDir' = WriteFile(dir, script.output,
                                   JoinedFile(WriteUntilMissing(script.parts, dir)))
           /\ joinExit' = [status |-> "exited", lang |-> "python",
                           code |-> IF Range(script.parts) \subseteq DOMAIN dir THEN 0 ELSE 1]
  /\ UNCHANGED <<tool, stage, strippedBin, libClang, manifestData, hardlinked, workTar,
                 permIssues, finalArchiveBound, chunksRead, outDir, artifact,
                 sizeArgMb, pos, parts, splitReturned>>
  /\ UNCHANGED <<dedupVars, archVars, procVars, utilVars>>

(***************************************************************************)
(* Specification of the splitters and the join helpers: split_archive.py   *)
(* on an archive and a part size, and fetch_and_archive.py from step 9 on  *)
(* for every size of the compressed archive.                               *)
(***************************************************************************)
RECURSIVE BytesUpTo(_)
BytesUpTo(n) ==
  IF n = 0 THEN {<<>>}
  ELSE LET shorter == BytesUpTo(n - 1)
       IN  shorter \cup {Append(b, x) : b \in {c \in shorter : Len(c) = n - 1}, x \in {0, 1}}

\* --part-size values: small ones with every small archive, 1 with
\* archives of ten to eleven parts, the default (95) and 100 with archives
\* of any size up to MaxArtifactMb
ToolRuns ==
  {[data |-> d, part_size_mb |-> mb] : d \in BytesUpTo(MaxSmallBytes), mb \in 1..MaxPartMb}
    \cup {[data |-> ArtifactOfSize(n), part_size_mb |-> 1]
             : n \in (9 * BytesPerMB + 1)..(11 * BytesPerMB)}
    \cup {[data |-> ArtifactOfSize(n), part_size_mb |-> mb]
             : n \in 1..(MaxArtifactMb * BytesPerMB), mb \in {95, 100}}

\* the run of the pipeline that packages one binary, a.exe, at step 9
OneBinary == (A_exe :> [data |-> DataX, mode |-> ModeExec])

OneBinaryTree ==
  HardlinkLoop(SortedItems(DeduplicateBinariesResult(BinDirOf(OneBinary)).manifest),
               OneBinary, {}, [tree |-> <<>>, copied |-> <<>>, skipped |-> {}]).tree

InitSplitTool ==
  /\ tool = "split_archive.py"
  /\ \/ \E run \in ToolRuns :
          /\ artifact = run.data
          /\ outDir = (ArchiveFile :> ZstComplete(run.data))
          /\ sizeArgMb = run.part_size_mb
     \/ /\ artifact = <<>>
        /\ outDir = <<>>
        /\ sizeArgMb = 95
  /\ stage = "split_archive"
  /\ zstandard = "untried"
  /\ strippedBin = <<>>
  /\ manifestData = NoResult
  /\ hardlinked = <<>>
  /\ workTar = AbsentFile
  /\ finalArchiveBound = FALSE
  /\ chunksRead = 0

InitSplitPipeline ==
  /\ tool = "fetch_and_archive"
  /\ \E n \in 1..(MaxArtifactMb * BytesPerMB) :
       /\ artifact = ArtifactOfSize(n)
       /\ outDir = WriteFile(WriteFile((ArchiveFile :> ZstComplete(artifact)),
                                       ArchiveFile \o DotSha256,
                                       SidecarLine(Sha256(artifact), ArchiveFile)),
                             ArchiveFile \o DotMd5, SidecarLine(Md5Hex(artifact), ArchiveFile))
  /\ sizeArgMb = MaxSizeMb
  /\ stage = "split_archive"
  /\ zstandard = "imported"
  /\ strippedBin = OneBinary
  /\ manifestData = DeduplicateBinariesResult(BinDirOf(OneBinary))
  /\ hardlinked = OneBinaryTree
  /\ workTar = [status |-> "written", members |-> TarMembers(OneBinaryTree), chunks |-> 1]
  /\ finalArchiveBound = TRUE
  /\ chunksRead = 1

InitSplit ==
  /\ UtilIdle
  /\ srcDir = <<>>
  /\ DedupIdle
  /\ ArchIdle
  /\ exitCode = <<>>
  /\ libClang = <<>>
  /\ permIssues = <<>>
  /\ pos = 0
  /\ parts = <<>>
  /\ splitReturned = "no"
  /\ joinDir = <<>>
  /\ joinExit = NoResult
  /\ (InitSplitTool \/ InitSplitPipeline)

NextSplit ==
  \/ ToolSplitOpen
  \/ ToolSplitPart
  \/ ToolSplitReturn
  \/ ToolExceptException
  \/ FaSplitCheck
  \/ FaSplitPart
  \/ InterruptSplitPart
  \/ FaSplitFinish
  \/ MainCleanup
  \/ InterruptMain
  \/ MainExceptKeyboardInterrupt
  \/ JoinBash
  \/ JoinPython

SpecSplit == InitSplit /\ [][NextSplit]_vars

(***************************************************************************)
(* create_iwyu_archives.py: process_platform_arch for one platform/arch,   *)
(* called from main(), which catches nothing.                              *)
(***************************************************************************)
IwyuBin == <<"b", "i", "n", "/", "i", "n", "c", "l", "u", "d", "e", "-", "w", "h", "a", "t",
             "-", "y", "o", "u", "-", "u", "s", "e">>
IwyuToolPy == <<"b", "i", "n", "/", "i", "w", "y", "u", "_", "t", "o", "o", "l", ".", "p", "y">>
IwyuBinTxt == <<"b", "i", "n", "/", "n", "o", "t", "e", "s", ".", "t", "x", "t">>
IwyuShareImp == <<"s", "h", "a", "r", "e", "/", "g", "c", "c", ".", "i", "m", "p">>
IwyuLibSo == <<"l", "i", "b", "/", "l", "i", "b", "c", ".", "s", "o">>
IwyuLicense == <<"L", "I", "C", "E", "N", "S", "E">>
IwyuPool == {IwyuBin, IwyuToolPy, IwyuBinTxt, IwyuShareImp, IwyuLibSo, IwyuLicense}

BinSlash == <<"b", "i", "n", "/">>
ShareSlash == <<"s", "h", "a", "r", "e", "/">>
SlashShare == <<"/", "s", "h", "a", "r", "e", "/">>
LibSlash == <<"l", "i", "b", "/">>
DotSo == <<".", "s", "o">>
IwyuExecSuffixes ==
  {<<".", "p", "y">>,
   <<"i", "n", "c", "l", "u", "d", "e", "-", "w", "h", "a", "t", "-", "y", "o", "u", "-", "u", "s", "e">>,
   DotExe}

InBin(name) == Contains(name, SlashBin) \/ StartsWith(name, BinSlash)
InShare(name) == Contains(name, SlashShare) \/ StartsWith(name, ShareSlash)
InLib(name) == Contains(name, SlashLib) \/ StartsWith(name, LibSlash)

\* tar_filter of create_iwyu_archives.py on a regular-file member
IwyuTarFilterMode(name, mode) ==
  IF InBin(name)
  THEN IF EndsWithAny(name, IwyuExecSuffixes) THEN ModeExec ELSE ModeData
  ELSE IF InShare(name) THEN ModeData
  ELSE IF InLib(name)
  THEN IF EndsWith(name, DotSo) \/ Contains(name, DotSoDot) THEN ModeExec ELSE ModeData
  ELSE ModeData

\* bin/, lib/, share/ are added in this order, then the top-level files
IwyuMembers(src) ==
  LET under(P(_)) == SortedSet({n \in DOMAIN src : P(n)})
      top == SortedSet({n \in DOMAIN src : ~InBin(n) /\ ~InLib(n) /\ ~InShare(n)})
      names == under(InBin) \o under(InLib) \o under(InShare) \o top
  IN  [i \in 1..Len(names) |->
         [name |-> names[i], type |-> "file",
          mode |-> IwyuTarFilterMode(names[i], src[names[i]])]]

\* the checks of verify_tar_permissions of create_iwyu_archives.py
IwyuMemberIssue(m) ==
  IF InBin(m.name)
  THEN IF EndsWithAny(m.name, IwyuExecSuffixes) /\ ~UserExecBit(m.mode)
       THEN <<[name |-> m.name, mode |-> m.mode, issue |-> "executable missing +x"]>>
       ELSE <<>>
  ELSE IF InShare(m.name) /\ UserExecBit(m.mode)
  THEN <<[name |-> m.name, mode |-> m.mode, issue |-> "data file has +x"]>>
  ELSE <<>>

IwyuIssuesFound(members) ==
  Flatten([i \in 1..Len(members) |->
             IF members[i].type = "file" THEN IwyuMemberIssue(members[i]) ELSE <<>>])

\* Path.with_suffix: the text after the last dot is replaced
WithSuffix(name, suffix) ==
  LET dots == {i \in 1..Len(name) : name[i] = "."}
      last == CHOOSE i \in dots : \A j \in dots : j <= i
  IN  IF dots = {} THEN name \o suffix ELSE SubSeq(name, 1, last - 1) \o suffix

DotTarZstSha256 == <<".", "t", "a", "r", ".", "z", "s", "t">> \o DotSha256

\* f"{sha256}  {zst_file.name}\n"
IwyuChecksumLine(digest, name) == <<digest, " ", " ", name, "\n">>

\* Step 1: create_tar_archive(source_dir, tar_file)
IwyuCreateTarArchive ==
  /\ tool = "create_iwyu_archives"
  /\ stage = "create_tar_archive"
  /\ \E n \in 1..MaxTarChunks :
       workTar' = [status |-> "written", members |-> IwyuMembers(libClang), chunks |-> n]
  /\ stage' = "verify_tar_permissions"
  /\ UNCHANGED <<tool, strippedBin, libClang, manifestData, hardlinked, permIssues,
                 finalArchiveBound, chunksRead, outDir, artifact, sizeArgMb,
                 pos, parts, splitReturned, joinDir, joinExit>>
  /\ UNCHANGED <<dedupVars, archVars, procVars, utilVars>>

\* Step 2: verify_tar_permissions(tar_file) raises RuntimeError on an issue
IwyuVerifyTarPermissions ==
  /\ tool = "create_iwyu_archives"
  /\ stage = "verify_tar_permissions"
  /\ permIssues' = IwyuIssuesFound(workTar.members)
  /\ stage' = IF permIssues' # <<>> THEN "raise_Exception" ELSE "compress_with_zstd"
  /\ UNCHANGED <<tool, strippedBin, libClang, manifestData, hardlinked, workTar,
                 finalArchiveBound, chunksRead, outDir, artifact, sizeArgMb,
                 pos, parts, splitReturned, joinDir, joinExit>>
  /\ UNCHANGED <<dedupVars, archVars, procVars, utilVars>>

\* Step 3: compress_with_zstd imports zstandard and opens the output file
IwyuCompressOpen ==
  /\ tool = "create_iwyu_archives"
  /\ stage = "compress_with_zstd"
  /\ \E installed \in BOOLEAN :
       IF installed
       THEN /\ zstandard' = "imported"
            /\ outDir' = WriteFile(outDir, ArchiveFile, ZstPartial)
            /\ chunksRead' = 0
            /\ stage' = "compress_loop"
       ELSE /\ zstandard' = "ImportError"
            /\ stage' = "raise_Exception"
            /\ UNCHANGED <<outDir, chunksRead>>
  /\ UNCHANGED <<tool, strippedBin, libClang, manifestData, hardlinked, workTar,
                 permIssues, finalArchiveBound, artifact, sizeArgMb, pos, parts,
                 splitReturned, joinDir, joinExit>>
  /\ UNCHANGED <<dedupVars, archVars, exitCode, utilVars>>

\* chunk = reader.read(chunk_size); ofh.write(chunk)
IwyuCompressChunk ==
  /\ tool = "create_iwyu_archives"
  /\ stage = "compress_loop"
  /\ chunksRead < workTar.chunks
  /\ chunksRead' = chunksRead + 1
  /\ UNCHANGED <<tool, stage, strippedBin, libClang, manifestData, hardlinked, workTar,
                 permIssues, finalArchiveBound, outDir, artifact, sizeArgMb,
                 pos, parts, splitReturned, joinDir, joinExit>>
  /\ UNCHANGED <<dedupVars, archVars, procVars, utilVars>>

\* the read returns b"": the with block closes the output
IwyuCompressFinish ==
  /\ tool = "create_iwyu_archives"
  /\ stage = "compress_loop"
  /\ chunksRead = workTar.chunks
  /\ \E n \in 1..MaxSmallBytes :
       /\ artifact' = ArtifactOfSize(n)
       /\ outDir' = WriteFile(outDir, ArchiveFile, ZstComplete(artifact'))
  /\ stage' = "generate_checksum"
  /\ UNCHANGED <<tool, strippedBin, libClang, manifestData, hardlinked, workTar,
                 permIssues, finalArchiveBound, chunksRead, sizeArgMb,
                 pos, parts, splitReturned, joinDir, joinExit>>
  /\ UNCHANGED <<dedupVars, archVars, procVars, utilVars>>

\* Step 4: the checksum file is written, the tar is unlinked, and main()
\* returns after the summary
IwyuGenerateChecksum ==
  /\ tool = "create_iwyu_archives"
  /\ stage = "generate_checksum"
  /\ outDir' = WriteFile(outDir, WithSuffix(ArchiveFile, DotTarZstSha256),
                         [kind |-> "text",
                          data |-> IwyuChecksumLine(Sha256(outDir[ArchiveFile].data),
                                                    ArchiveFile)])
  /\ workTar' = AbsentFile
  /\ exitCode' = <<0>>
  /\ stage' = "exited"
  /\ UNCHANGED <<tool, strippedBin, libClang, manifestData, hardlinked, permIssues,
                 finalArchiveBound, chunksRead, artifact, sizeArgMb, pos, parts,
                 splitReturned, joinDir, joinExit>>
  /\ UNCHANGED <<dedupVars, archVars, zstandard, utilVars>>

IwyuSteps ==
  {"create_tar_archive", "verify_tar_permissions", "compress_with_zstd",
   "compress_loop", "generate_checksum"}

\* Ctrl+C in any step: no function of the script has a handler
IwyuInterrupt ==
  /\ tool = "create_iwyu_archives"
  /\ stage \in IwyuSteps
  /\ stage' = "raise_KeyboardInterrupt"
  /\ UNCHANGED <<tool, strippedBin, libClang, manifestData, hardlinked, workTar,
                 permIssues, finalArchiveBound, chunksRead, outDir, artifact,
                 sizeArgMb, pos, parts, splitReturned, joinDir, joinExit>>
  /\ UNCHANGED <<dedupVars, archVars, procVars, utilVars>>

\* the exception leaves main(): the interpreter exits with a traceback
IwyuUncaught ==
  /\ tool = "create_iwyu_archives"
  /\ stage \in {"raise_KeyboardInterrupt", "raise_Exception"}
  /\ exitCode' = IF stage = "raise_KeyboardInterrupt" THEN <<130>> ELSE <<1>>
  /\ stage' = "exited"
  /\ UNCHANGED <<tool, strippedBin, libClang, manifestData, hardlinked, workTar,
                 permIssues, finalArchiveBound, chunksRead, outDir, artifact,
                 sizeArgMb, pos, parts, splitReturned, joinDir, joinExit>>
  /\ UNCHANGED <<dedupVars, archVars, zstandard, utilVars>>

\* source_dir of one platform/arch: bin/ exists, every file has some mode
IwyuSourceDirs ==
  UNION {[S -> SrcModes] : S \in {T \in SUBSET IwyuPool : IwyuBin \in T}}

InitIwyu ==
  /\ UtilIdle
  /\ srcDir = <<>>
  /\ DedupIdle
  /\ ArchIdle
  /\ ProcIdle
  /\ tool = "create_iwyu_archives"
  /\ stage = "create_tar_archive"
  /\ strippedBin = <<>>
  /\ libClang \in IwyuSourceDirs
  /\ manifestData = NoResult
  /\ hardlinked = <<>>
  /\ workTar = AbsentFile
  /\ permIssues = <<>>
  /\ finalArchiveBound = FALSE
  /\ chunksRead = 0
  /\ outDir = <<>>
  /\ artifact = <<>>
  /\ sizeArgMb = 0
  /\ pos = 0
  /\ parts = <<>>
  /\ splitReturned = "no"
  /\ joinDir = <<>>
  /\ joinExit = NoResult

NextIwyu ==
  \/ IwyuCreateTarArchive
  \/ IwyuVerifyTarPermissions
  \/ IwyuCompressOpen
  \/ IwyuCompressChunk
  \/ IwyuCompressFinish
  \/ IwyuGenerateChecksum
  \/ IwyuInterrupt
  \/ IwyuUncaught

SpecIwyu == InitIwyu /\ [][NextIwyu]_vars

(***************************************************************************)
(* Loading <deduped>/dedup_manifest.json: main() and                       *)
(* create_hardlink_structure of create_hardlink_archive.py, and            *)
(* expand_deduped_structure of deduplicate_binaries.py, on whatever file   *)
(* is found at that path.                                                  *)
(***************************************************************************)
MaxManifestItems == 2

\* a JSON value of the "manifest" object: a string, or a number
JsonStr(s) == [type |-> "str", s |-> s]
JsonInt == [type |-> "int"]
JsonValues == {JsonStr(n) : n \in ExePool} \cup {JsonInt}

\* the "manifest" objects of at most MaxManifestItems members, in file order
RECURSIVE JsonObjects(_)
JsonObjects(k) ==
  IF k = 0 THEN {<<>>}
  ELSE LET shorter == JsonObjects(k - 1)
       IN  shorter \cup
           {Append(o, <<n, v>>) : o \in {x \in shorter : Len(x) = k - 1},
                                  n \in ExePool, v \in JsonValues}

DistinctKeys(o) == Cardinality(Keys(o)) = Len(o)

\* what can be found at <deduped>/dedup_manifest.json
ManifestFilesOnDisk ==
  {AbsentFile,
   [status |-> "written", json |-> "invalid", manifest |-> <<>>],
   [status |-> "written", json |-> "no_manifest_key", manifest |-> <<>>],
   [status |-> "written", json |-> "manifest_is_list", manifest |-> <<>>]}
    \cup {[status |-> "written", json |-> "manifest_is_object", manifest |-> o]
            : o \in {x \in JsonObjects(MaxManifestItems) : DistinctKeys(x)}}

\* with open(manifest_path) as f: manifest_data = json.load(f);
\* manifest = manifest_data["manifest"]
LoadManifest(file) ==
  IF file.status = "absent" THEN [status |-> "FileNotFoundError"]
  ELSE IF file.json = "invalid" THEN [status |-> "JSONDecodeError"]
  ELSE IF file.json = "no_manifest_key" THEN [status |-> "KeyError"]
  ELSE IF file.json = "manifest_is_list" THEN [status |-> "loaded", dict |-> FALSE, items |-> <<>>]
  ELSE [status |-> "loaded", dict |-> TRUE, items |-> file.manifest]

\* the items a loop handles before `canonical_dir / canonical_name` raises
\* TypeError on a value that is not a string
RECURSIVE StrPrefix(_)
StrPrefix(items) ==
  IF items = <<>> \/ Head(items)[2].type # "str" THEN <<>>
  ELSE <<(<<Head(items)[1], Head(items)[2].s>>)>> \o StrPrefix(Tail(items))

\* main() of create_hardlink_archive.py up to and including step 1
MainLoadAndCreateHardlinkStructure ==
  /\ pc = "start"
  /\ LET m == LoadManifest(destManifest)
     IN  IF m.status # "loaded" \/ ~m.dict
         THEN \* sys.exit(1) on a missing manifest; json.load, the subscript
              \* or manifest.items() raises on the others
              /\ pc' = "exited"
              /\ exitCode' = <<1>>
              /\ UNCHANGED <<manifestFile, tree, skipped>>
         ELSE LET sorted == SortedItems(m.items)
                  done == StrPrefix(sorted)
              IN  \E linkFails \in SUBSET Keys(done) :
                    LET r == HardlinkLoop(done, canonicalDir, linkFails,
                                          [tree |-> tree, copied |-> <<>>, skipped |-> {}])
                    IN  IF Len(done) = Len(sorted)
                        THEN /\ manifestFile' = done
                             /\ tree' = CopyLib(r.tree, libSrc)
                             /\ skipped' = r.skipped
                             /\ pc' = "hardlinked"
                             /\ UNCHANGED exitCode
                        ELSE /\ tree' = r.tree
                             /\ skipped' = r.skipped
                             /\ pc' = "exited"
                             /\ exitCode' = <<1>>
                             /\ UNCHANGED manifestFile
  /\ UNCHANGED <<canonicalDir, libSrc, tarFile, issues, zstFile>>
  /\ UNCHANGED <<dedupVars, zstandard, pipeVars, utilVars>>

\* expand_deduped_structure on the same file; the items come in file order
LoadAndExpandDedupedStructure ==
  /\ expandStatus = "none"
  /\ LET m == LoadManifest(destManifest)
     IN  IF m.status # "loaded" \/ ~m.dict
         THEN /\ expandStatus' = "error"
              /\ UNCHANGED <<outBin, expandWrote>>
         ELSE LET done == StrPrefix(m.items)
                  r == ExpandLoop(done, destCanonical, [bin |-> outBin, wrote |-> {}])
              IN  /\ expandStatus' = IF Len(done) = Len(m.items) THEN r.status ELSE "error"
                  /\ outBin' = r.bin
                  /\ expandWrote' = r.wrote
  /\ UNCHANGED <<srcDir, destCanonical, destManifest, dedupRuns, pipeOut>>
  /\ UNCHANGED <<archVars, procVars, pipeVars, utilVars>>

\* <deduped>/canonical exists and holds some of the binaries
InitLoad ==
  /\ UtilIdle
  /\ srcDir = <<>>
  /\ destManifest \in ManifestFilesOnDisk
  /\ destCanonical \in UNION {[S -> {DataX}] : S \in SUBSET ExePool}
  /\ canonicalDir = [n \in DOMAIN destCanonical |->
                       [data |-> destCanonical[n], mode |-> ModeExec]]
  /\ outBin = <<>>
  /\ dedupRuns = <<>>
  /\ expandStatus = "none"
  /\ expandWrote = {}
  /\ pipeOut = NoResult
  /\ manifestFile = <<>>
  /\ libSrc = <<>>
  /\ tree = <<>>
  /\ pc = "start"
  /\ skipped = {}
  /\ tarFile = AbsentFile
  /\ issues = <<>>
  /\ zstFile = "absent"
  /\ ProcIdle
  /\ PipeIdle

NextLoad ==
  \/ MainLoadAndCreateHardlinkStructure
  \/ LoadAndExpandDedupedStructure
  \/ VerifyHardlinks
  \/ CreateTarArchive
  \/ VerifyTarPermissions
  \/ CompressWithZstd

SpecLoad == InitLoad /\ [][NextLoad]_vars

(***************************************************************************)
(* expand_archive.py: expand_zst_archive.                                  *)
(***************************************************************************)
MaxArchived == 3

WinHardlinked == "win_hardlinked"
ArchiveRoots == {WinHardlinked, "hardlinked"}
OtherEntries == {"notes.txt"}

\* bin/ of an archive written by create_tar_archive: tar.add stores the first
\* name of an inode (in sorted order) as a file and each later one as a link
ArchivedBins ==
  UNION {{b \in [S -> [data : {DataX, DataY}, link : S]] :
            \A n \in S :
              /\ b[n].link = n \/ StrLess(b[n].link, n)
              /\ b[b[n].link].link = b[n].link
              /\ b[b[n].link].data = b[n].data}
         : S \in {T \in SUBSET NamePool : T # {} /\ Cardinality(T) <= MaxArchived}}

\* tar.extractall: a link member becomes os.link to its target, or a copy
\* of the target where the link cannot be made
ExtractAll(bin, linkFails) ==
  [n \in DOMAIN bin |->
     [data |-> bin[n].data,
      ino |-> IF n \in linkFails THEN <<"tar", n>> ELSE <<"tar", bin[n].link>>]]

\* lines 90-95: output_dir / "win_hardlinked", else the only entry of
\* output_dir when that is a directory
ExtractedRoot(dir) ==
  IF WinHardlinked \in DOMAIN dir THEN WinHardlinked
  ELSE IF Cardinality(DOMAIN dir) = 1 /\ \A e \in DOMAIN dir : dir[e].kind = "dir"
       THEN CHOOSE e \in DOMAIN dir : TRUE
       ELSE WinHardlinked

\* inode_to_files[inode][0] for the inode of exe_files[i]
FirstOfInode(bin, exeFiles, i) ==
  exeFiles[MinOf({j \in 1..Len(exeFiles) : bin[exeFiles[j]].ino = bin[exeFiles[i]].ino})]

HardlinkCount(bin, exeFiles) ==
  Cardinality({bin[exeFiles[i]].ino : i \in {j \in 1..Len(exeFiles) :
                   FirstOfInode(bin, exeFiles, j) # exeFiles[j]}})

\* convert_hardlinks_to_files: the first file of each inode stays, every
\* other one is replaced by a copy of the first made under a temporary name
ConvertHardlinksToFiles(bin, exeFiles) ==
  [n \in DOMAIN bin |->
     IF \E i \in 1..Len(exeFiles) : exeFiles[i] = n /\ FirstOfInode(bin, exeFiles, i) # n
     THEN LET i == CHOOSE j \in 1..Len(exeFiles) : exeFiles[j] = n
          IN  [data |-> bin[FirstOfInode(bin, exeFiles, i)].data, ino |-> <<"tmp", n>>]
     ELSE bin[n]]

\* lines 30-43: import zstandard, archive_path.exists()
ExpandStart ==
  /\ tool = "expand_archive"
  /\ stage = "start"
  /\ \E outcome \in {"imported", "ImportError"} :
       /\ zstandard' = outcome
       /\ IF outcome = "ImportError" \/ archive = AbsentFile
          THEN stage' = "exited" /\ exitCode' = <<1>>
          ELSE stage' = "extract" /\ UNCHANGED exitCode
  /\ UNCHANGED <<tool, strippedBin, libClang, manifestData, hardlinked, workTar,
                 permIssues, finalArchiveBound, chunksRead, outDir, artifact,
                 sizeArgMb, pos, parts, splitReturned, joinDir, joinExit>>
  /\ UNCHANGED <<dedupVars, archVars, utilVars>>

\* steps 1 and 2: decompress, output_dir.mkdir, tar.extractall
ExpandExtractAll ==
  /\ tool = "expand_archive"
  /\ stage = "extract"
  /\ \E linkFails \in SUBSET DOMAIN archive.bin :
       outputDir' =
         [e \in DOMAIN outputDir \cup {archive.root} |->
            IF e = archive.root
            THEN [kind |-> "dir", bin |-> ExtractAll(archive.bin, linkFails)]
            ELSE outputDir[e]]
  /\ stage' = "analyze"
  /\ UNCHANGED <<keepHardlinks, archive, extractedRoot, updateVars, downloadVars, fetchVars>>
  /\ UNCHANGED <<tool, strippedBin, libClang, manifestData, hardlinked, workTar,
                 permIssues, finalArchiveBound, chunksRead, outDir, artifact,
                 sizeArgMb, pos, parts, splitReturned, joinDir, joinExit>>
  /\ UNCHANGED <<dedupVars, archVars, procVars>>

\* step 3: find the extraction root, group bin/*.exe by inode and, unless
\* keep_hardlinks, convert the groups; bin_dir.glob lists in any order
ExpandAnalyze ==
  /\ tool = "expand_archive"
  /\ stage = "analyze"
  /\ LET root == ExtractedRoot(outputDir)
     IN  /\ extractedRoot' = root
         /\ IF root \in DOMAIN outputDir /\ outputDir[root].kind = "dir"
            THEN \E exeFiles \in Perms({n \in DOMAIN outputDir[root].bin : IsExe(n)}) :
                   IF HardlinkCount(outputDir[root].bin, exeFiles) > 0 /\ ~keepHardlinks
                   THEN outputDir' =
                          [outputDir EXCEPT ![root].bin =
                             ConvertHardlinksToFiles(outputDir[root].bin, exeFiles)]
                   ELSE UNCHANGED outputDir
            ELSE UNCHANGED outputDir
  /\ stage' = "returned"
  /\ UNCHANGED <<keepHardlinks, archive, updateVars, downloadVars, fetchVars>>
  /\ UNCHANGED <<tool, strippedBin, libClang, manifestData, hardlinked, workTar,
                 permIssues, finalArchiveBound, chunksRead, outDir, artifact,
                 sizeArgMb, pos, parts, splitReturned, joinDir, joinExit>>
  /\ UNCHANGED <<dedupVars, archVars, procVars>>

InitExpand ==
  /\ srcDir = <<>>
  /\ DedupIdle
  /\ ArchIdle
  /\ ProcIdle
  /\ tool = "expand_archive"
  /\ stage = "start"
  /\ strippedBin = <<>>
  /\ libClang = <<>>
  /\ manifestData = NoResult
  /\ hardlinked = <<>>
  /\ workTar = AbsentFile
  /\ permIssues = <<>>
  /\ finalArchiveBound = FALSE
  /\ chunksRead = 0
  /\ outDir = <<>>
  /\ artifact = <<>>
  /\ sizeArgMb = 0
  /\ pos = 0
  /\ parts = <<>>
  /\ splitReturned = "no"
  /\ joinDir = <<>>
  /\ joinExit = NoResult
  /\ keepHardlinks \in BOOLEAN
  /\ archive \in {AbsentFile} \cup
                 {[status |-> "present", root |-> r, bin |-> b] :
                    r \in ArchiveRoots, b \in ArchivedBins}
  /\ outputDir \in {[e \in S |-> [kind |-> "file"]] : S \in SUBSET OtherEntries}
  /\ extractedRoot = NoResult
  /\ UpdateIdle
  /\ DownloadIdle
  /\ FetchIdle

NextExpand ==
  \/ ExpandStart
  \/ ExpandExtractAll
  \/ ExpandAnalyze

SpecExpand == InitExpand /\ [][NextExpand]_vars

(***************************************************************************)
(* split_archive.py: update_manifest_with_parts, called by main() after    *)
(* split_archive has returned the parts.                                   *)
(***************************************************************************)
MaxVersions == 2
MaxUpdateParts == 2

LatestKey == <<"l", "a", "t", "e", "s", "t">>
VersionsKey == <<"v", "e", "r", "s", "i", "o", "n", "s">>
HrefKey == <<"h", "r", "e", "f">>
Sha256Key == <<"s", "h", "a", "2", "5", "6">>
PartsKey == <<"p", "a", "r", "t", "s">>
BaseUrl == <<"u">>

JsonDict(items) == [type |-> "dict", items |-> items]
JsonList(items) == [type |-> "list", items |-> items]

\* key in d, d[key], d[key] = value of a dict kept as its items
DictHas(items, key) == key \in Keys(items)
DictGet(items, key) == Lookup(items, key)
DictSet(items, key, value) ==
  IF DictHas(items, key)
  THEN [i \in 1..Len(items) |-> IF items[i][1] = key THEN <<key, value>> ELSE items[i]]
  ELSE Append(items, <<key, value>>)

\* the first key of the items whose value is a dict with an href that
\* contains archive_name; <<>> when there is none
FirstMatch(items, archive_name, skipLatest) ==
  LET hits == {i \in 1..Len(items) :
                 /\ ~(skipLatest /\ items[i][1] = LatestKey)
                 /\ items[i][2].type = "dict"
                 /\ DictHas(items[i][2].items, HrefKey)
                 /\ Contains(DictGet(items[i][2].items, HrefKey).s, archive_name)}
  IN  IF hits = {} THEN <<>> ELSE <<items[MinOf(hits)][1]>>

\* lines 138-141: {"href": f"{base_url}/{part_path.name}", "sha256": sha256}
PartsList(partsArg, base_url) ==
  [i \in 1..Len(partsArg) |->
     JsonDict(<< <<HrefKey, JsonStr(base_url \o <<"/">> \o partsArg[i].path)>>,
                 <<Sha256Key, JsonStr(partsArg[i].sha256)>> >>)]

\* lines 144-145 on the dict bound to `manifest`
SetShaAndParts(items, version_key, full_sha256, parts_list) ==
  LET entry == DictGet(items, version_key).items
  IN  DictSet(items, version_key,
              JsonDict(DictSet(DictSet(entry, Sha256Key, JsonStr(full_sha256)),
                               PartsKey, JsonList(parts_list))))

\* lines 113-151: whether the manifest is written, and what json.dump writes
UpdatedManifest(items, archive_name, partsArg, base_url, full_sha256) ==
  LET top == FirstMatch(items, archive_name, TRUE)
      nested == IF top = <<>> /\ DictHas(items, VersionsKey)
                THEN FirstMatch(DictGet(items, VersionsKey).items, archive_name, FALSE)
                ELSE <<>>
  IN  IF top # <<>>
      THEN [written |-> TRUE,
            json |-> SetShaAndParts(items, top[1], full_sha256,
                                    PartsList(partsArg, base_url))]
      ELSE IF nested # <<>>
      THEN [written |-> TRUE,
            json |-> SetShaAndParts(DictGet(items, VersionsKey).items, nested[1],
                                    full_sha256, PartsList(partsArg, base_url))]
      ELSE [written |-> FALSE, json |-> items]

\* calculate_sha256: the digest of the whole file
CalculateSha256(dir, name) == Sha256(dir[name].data)

UpdateManifestWithParts ==
  /\ tool = "split_archive.py"
  /\ stage = "update_manifest_with_parts"
  /\ IF manifestJson = AbsentFile
     THEN stage' = "main_success" /\ UNCHANGED manifestJson
     ELSE IF ArchiveFile \notin DOMAIN outDir
     THEN stage' = "raise_Exception" /\ UNCHANGED manifestJson
     ELSE LET new == UpdatedManifest(manifestJson.json, ArchiveFile, parts, BaseUrl,
                                     CalculateSha256(outDir, ArchiveFile))
          IN  /\ stage' = "main_success"
              /\ manifestJson' = IF new.written
                                 THEN [status |-> "present", json |-> new.json]
                                 ELSE manifestJson
  /\ UNCHANGED <<tool, strippedBin, libClang, manifestData, hardlinked, workTar,
                 permIssues, finalArchiveBound, chunksRead, outDir, artifact,
                 sizeArgMb, pos, parts, splitReturned, joinDir, joinExit>>
  /\ UNCHANGED <<dedupVars, archVars, procVars, expandVars, downloadVars, fetchVars>>

\* lines 220-236: return 0, or `except Exception` and return 1
UpdateMainReturn ==
  /\ tool = "split_archive.py"
  /\ stage \in {"main_success", "raise_Exception"}
  /\ exitCode' = IF stage = "main_success" THEN <<0>> ELSE <<1>>
  /\ stage' = "exited"
  /\ UNCHANGED <<tool, strippedBin, libClang, manifestData, hardlinked, workTar,
                 permIssues, finalArchiveBound, chunksRead, outDir, artifact,
                 sizeArgMb, pos, parts, splitReturned, joinDir, joinExit>>
  /\ UNCHANGED <<dedupVars, archVars, zstandard, utilVars>>

\* hrefs of the version entries: two that contain the archive name, one
\* that does not
HrefPool == {<<"x", "/">> \o ArchiveFile, <<"y", "/">> \o ArchiveFile, <<"x", "/", "b">>}

VersionEntry(href) ==
  JsonDict(<< <<HrefKey, JsonStr(href)>>, <<Sha256Key, JsonStr(Sha256(<<9>>))>> >>)

\* {version: entry} for some of the versions "1", "2", ..
RECURSIVE VersionDicts(_)
VersionDicts(n) ==
  IF n = 0 THEN {<<>>}
  ELSE LET rest == VersionDicts(n - 1)
       IN  rest \cup {Append(d, <<Decimal(n), VersionEntry(h)>>) : d \in rest, h \in HrefPool}

\* manifest.json: "latest", version entries at the top level and, or, below
\* "versions"
ManifestJsons ==
  {<< <<LatestKey, JsonStr(Decimal(1))>> >> \o top : top \in VersionDicts(MaxVersions)}
    \cup {<< <<LatestKey, JsonStr(Decimal(1))>> >> \o top \o << <<VersionsKey, JsonDict(nested)>> >>
            : top \in VersionDicts(MaxVersions), nested \in VersionDicts(MaxVersions)}

\* the list split_archive returns for an archive cut into one-byte parts
PartsOf(data) ==
  [i \in 1..Len(data) |->
     [path |-> PartName(ArchiveFile, i), sha256 |-> Sha256(<<data[i]>>)]]

RECURSIVE WriteParts(_, _, _)
WriteParts(dir, data, i) ==
  IF i > Len(data) THEN dir
  ELSE WriteParts(WriteFile(dir, PartName(ArchiveFile, i), PartFile("complete", <<data[i]>>)),
                  data, i + 1)

InitUpdate ==
  /\ srcDir = <<>>
  /\ DedupIdle
  /\ ArchIdle
  /\ ProcIdle
  /\ tool = "split_archive.py"
  /\ stage = "update_manifest_with_parts"
  /\ strippedBin = <<>>
  /\ libClang = <<>>
  /\ manifestData = NoResult
  /\ hardlinked = <<>>
  /\ workTar = AbsentFile
  /\ permIssues = <<>>
  /\ finalArchiveBound = FALSE
  /\ chunksRead = 0
  /\ artifact \in {d \in BytesUpTo(MaxUpdateParts) : d # <<>>}
  /\ \/ outDir = WriteParts((ArchiveFile :> ZstComplete(artifact)), artifact, 1)
     \/ outDir = WriteParts(<<>>, artifact, 1)
  /\ sizeArgMb = 1
  /\ pos = Len(artifact)
  /\ parts = PartsOf(artifact)
  /\ splitReturned = "parts"
  /\ joinDir = <<>>
  /\ joinExit = NoResult
  /\ ExpandIdle
  /\ DownloadIdle
  /\ FetchIdle
  /\ manifestJson \in {AbsentFile} \cup {[status |-> "present", json |-> j] : j \in ManifestJsons}

NextUpdate ==
  \/ UpdateManifestWithParts
  \/ UpdateMainReturn

SpecUpdate == InitUpdate /\ [][NextUpdate]_vars

(***************************************************************************)
(* download_binaries.py: BinaryDownloader.download_platform.               *)
(***************************************************************************)
\* BINARY_CONFIGS: a platform with an installer and an alternative archive,
\* and a platform with one archive
BinaryConfigs ==
  [win |-> [filename |-> "LLVM-win64.exe", type |-> "installer",
            alt_filename |-> <<"clang+llvm-windows-msvc.tar.xz">>],
   linux |-> [filename |-> "LLVM-Linux-X64.tar.xz", type |-> "archive",
              alt_filename |-> <<>>]]

PlatformKeys == {"win", "linux", "plan9"}

\* a SHA-256 as a hex string: the digest and the case of its letters
Checksum(data, case) == [status |-> "known", hex |-> Sha256(data), case |-> case]
Lower(checksum) == [checksum EXCEPT !.case = "lower"]

\* compute_sha256: hexdigest() is in lower case
ComputeSha256(dir, path) == Checksum(dir[path], "lower")

VerifyChecksumSkipped(verify, dir, path, expected, readFails) == TRUE

\* verify_checksum; readFails: open() or read() raises
VerifyChecksum(verify, dir, path, expected, readFails) ==
  IF ~verify THEN TRUE
  ELSE IF expected = NoResult THEN TRUE
  ELSE IF readFails THEN FALSE
  ELSE Lower(ComputeSha256(dir, path)) = Lower(expected)

\* what urlretrieve does for one URL: the bytes it stores, or the bytes it
\* has stored when it raises
Served ==
  {[status |-> "ok", data |-> d] : d \in {DataX, DataY}}
    \cup {[status |-> "error", data |-> d] : d \in {<<>>, SubSeq(DataX, 1, 1)}}

\* urlretrieve(url, destination): an error before the first byte leaves the
\* destination as it was
UrlRetrieve(dir, dest, served) ==
  IF served.status = "error" /\ served.data = <<>> THEN dir
  ELSE [n \in DOMAIN dir \cup {dest} |-> IF n = dest THEN served.data ELSE dir[n]]

\* download_file: [ok, dir] for the answer of the user to "Overwrite?", the
\* behaviour of the server and of the reads of verify_checksum
DownloadFileResult(dir, dest, expected, verify, response, served, readFails) ==
  LET fetched == UrlRetrieve(dir, dest, served)
      download ==
        IF served.status = "error" THEN [ok |-> FALSE, dir |-> fetched]
        ELSE IF expected # NoResult
                /\ ~VerifyChecksum(verify, fetched, dest, expected, readFails)
        THEN [ok |-> FALSE, dir |-> fetched]
        ELSE [ok |-> TRUE, dir |-> fetched]
  IN  IF dest \in DOMAIN dir
      THEN IF expected # NoResult /\ verify
           THEN IF VerifyChecksum(verify, dir, dest, expected, readFails)
                THEN [ok |-> TRUE, dir |-> dir]
                ELSE download
           ELSE IF response # "y" THEN [ok |-> TRUE, dir |-> dir] ELSE download
      ELSE download

\* lines 279-309: the platform is looked up and the checksum database asked
DownloadPlatformStart ==
  /\ tool = "download_binaries"
  /\ stage = "download_platform"
  /\ IF platformKey \notin DOMAIN BinaryConfigs
     THEN /\ returned' = [status |-> "None"]
          /\ stage' = "returned"
          /\ UNCHANGED expectedChecksum
     ELSE /\ expectedChecksum' = IF expectedChecksum = NoResult /\ verifyChecksums
                                 THEN dbChecksum ELSE expectedChecksum
          /\ stage' = "download_file"
          /\ UNCHANGED returned
  /\ UNCHANGED <<platformKey, verifyChecksums, dbChecksum, downloads, attempts, extracted>>
  /\ UNCHANGED <<tool, strippedBin, libClang, manifestData, hardlinked, workTar,
                 permIssues, finalArchiveBound, chunksRead, outDir, artifact,
                 sizeArgMb, pos, parts, splitReturned, joinDir, joinExit>>
  /\ UNCHANGED <<dedupVars, archVars, procVars, expandVars, updateVars, fetchVars>>

\* lines 312-323: download_file for the URL, then for the alternative one
DownloadAttempt ==
  /\ tool = "download_binaries"
  /\ stage \in {"download_file", "download_alt"}
  /\ LET config == BinaryConfigs[platformKey]
         dest == IF stage = "download_file" THEN config.filename ELSE config.alt_filename[1]
     IN  \E response \in {"y", "n"}, served \in Served, readFails \in BOOLEAN :
           LET r == DownloadFileResult(downloads, dest, expectedChecksum, verifyChecksums,
                                       response, served, readFails)
           IN  /\ downloads' = r.dir
               /\ attempts' = Append(attempts, [path |-> dest, ok |-> r.ok])
               /\ IF r.ok
                  THEN stage' = "extract" /\ UNCHANGED returned
                  ELSE IF stage = "download_file" /\ config.alt_filename # <<>>
                  THEN stage' = "download_alt" /\ UNCHANGED returned
                  ELSE stage' = "returned" /\ returned' = [status |-> "None"]
  /\ UNCHANGED <<platformKey, verifyChecksums, expectedChecksum, dbChecksum, extracted>>
  /\ UNCHANGED <<tool, strippedBin, libClang, manifestData, hardlinked, workTar,
                 permIssues, finalArchiveBound, chunksRead, outDir, artifact,
                 sizeArgMb, pos, parts, splitReturned, joinDir, joinExit>>
  /\ UNCHANGED <<dedupVars, archVars, procVars, expandVars, updateVars, fetchVars>>

\* lines 326-335: the file of the last attempt goes to the extractor; a
\* failed installer extraction still returns extract_dir
ExtractDownload ==
  /\ tool = "download_binaries"
  /\ stage = "extract"
  /\ LET config == BinaryConfigs[platformKey]
         download_path == attempts[Len(attempts)].path
     IN  \E extractOk \in BOOLEAN :
           /\ extracted' = [status |-> "extracted", path |-> download_path,
                            data |-> downloads[download_path], ok |-> extractOk]
           /\ returned' = IF config.type = "installer" \/ extractOk
                          THEN [status |-> "extract_dir"]
                          ELSE [status |-> "None"]
  /\ stage' = "returned"
  /\ UNCHANGED <<platformKey, verifyChecksums, expectedChecksum, dbChecksum, downloads,
                 attempts>>
  /\ UNCHANGED <<tool, strippedBin, libClang, manifestData, hardlinked, workTar,
                 permIssues, finalArchiveBound, chunksRead, outDir, artifact,
                 sizeArgMb, pos, parts, splitReturned, joinDir, joinExit>>
  /\ UNCHANGED <<dedupVars, archVars, procVars, expandVars, updateVars, fetchVars>>

\* the arguments, the database and the files left by earlier runs
InitDownload ==
  /\ srcDir = <<>>
  /\ DedupIdle
  /\ ArchIdle
  /\ ProcIdle
  /\ tool = "download_binaries"
  /\ stage = "download_platform"
  /\ strippedBin = <<>>
  /\ libClang = <<>>
  /\ manifestData = NoResult
  /\ hardlinked = <<>>
  /\ workTar = AbsentFile
  /\ permIssues = <<>>
  /\ finalArchiveBound = FALSE
  /\ chunksRead = 0
  /\ outDir = <<>>
  /\ artifact = <<>>
  /\ sizeArgMb = 0
  /\ pos = 0
  /\ parts = <<>>
  /\ splitReturned = "no"
  /\ joinDir = <<>>
  /\ joinExit = NoResult
  /\ ExpandIdle
  /\ UpdateIdle
  /\ FetchIdle
  /\ platformKey \in PlatformKeys
  /\ verifyChecksums \in BOOLEAN
  /\ expectedChecksum \in {NoResult, Checksum(DataX, "lower"), Checksum(DataX, "upper")}
  /\ dbChecksum \in {NoResult, Checksum(DataX, "lower")}
  /\ downloads \in
       UNION {[S -> {DataX, DataY}] :
                S \in SUBSET {"LLVM-win64.exe", "clang+llvm-windows-msvc.tar.xz",
                              "LLVM-Linux-X64.tar.xz"}}
  /\ attempts = <<>>
  /\ extracted = NoResult
  /\ returned = NoResult

NextDownload ==
  \/ DownloadPlatformStart
  \/ DownloadAttempt
  \/ ExtractDownload

SpecDownload == InitDownload /\ [][NextDownload]_vars

(***************************************************************************)
(* fetch_and_archive.py: download_file.                                    *)
(***************************************************************************)
MaxFetchBytes == 2

OutputPath == <<"o", "u", "t">>
DotDownloading == <<".", "d", "o", "w", "n", "l", "o", "a", "d", "i", "n", "g">>

\* Path(str(output_path) + ".downloading")
BreadcrumbPath(output_path) == output_path \o DotDownloading

Fetched(status, data) == [kind |-> "file", status |-> status, data |-> data]
FetchDirEntry == [kind |-> "dir", status |-> "complete", data |-> <<>>]

\* the statements of download_file a Ctrl+C can arrive at: outside the try
\* statement, inside its body, inside its handler
FetchOutsideTry == {"touch", "def_report_progress"}
FetchInsideTry == {"urlretrieve", "urlretrieve_read", "unlink_breadcrumb"}
FetchInHandler == {"except_unlink_output", "except_unlink_breadcrumb"}

\* line 202: breadcrumb_path.touch()
FetchTouch ==
  /\ tool = "download_file"
  /\ stage = "touch"
  /\ fetchDir' = IF BreadcrumbPath(OutputPath) \in DOMAIN fetchDir THEN fetchDir
                 ELSE WriteFile(fetchDir, BreadcrumbPath(OutputPath), Fetched("complete", <<>>))
  /\ stage' = "def_report_progress"
  /\ UNCHANGED <<fetchUrl, fetchExc>>
  /\ UNCHANGED <<tool, strippedBin, libClang, manifestData, hardlinked, workTar,
                 permIssues, finalArchiveBound, chunksRead, outDir, artifact,
                 sizeArgMb, pos, parts, splitReturned, joinDir, joinExit>>
  /\ UNCHANGED <<dedupVars, archVars, procVars, expandVars, updateVars, downloadVars>>

\* lines 204-212: the def statement, then the try statement is entered
FetchEnterTry ==
  /\ tool = "download_file"
  /\ stage = "def_report_progress"
  /\ stage' = "urlretrieve"
  /\ UNCHANGED <<fetchDir, fetchUrl, fetchExc>>
  /\ UNCHANGED <<tool, strippedBin, libClang, manifestData, hardlinked, workTar,
                 permIssues, finalArchiveBound, chunksRead, outDir, artifact,
                 sizeArgMb, pos, parts, splitReturned, joinDir, joinExit>>
  /\ UNCHANGED <<dedupVars, archVars, procVars, expandVars, updateVars, downloadVars>>

\* urlretrieve: urlopen, then open(filename, "wb"); either may raise
FetchUrlOpen ==
  /\ tool = "download_file"
  /\ stage = "urlretrieve"
  /\ IF fetchUrl.status = "URLError"
     THEN /\ stage' = "except_unlink_output"
          /\ fetchExc' = "URLError"
          /\ UNCHANGED fetchDir
     ELSE IF OutputPath \in DOMAIN fetchDir /\ fetchDir[OutputPath].kind = "dir"
     THEN /\ stage' = "except_unlink_output"
          /\ fetchExc' = "IsADirectoryError"
          /\ UNCHANGED fetchDir
     ELSE /\ fetchDir' = WriteFile(fetchDir, OutputPath, Fetched("partial", <<>>))
          /\ stage' = "urlretrieve_read"
          /\ UNCHANGED fetchExc
  /\ UNCHANGED fetchUrl
  /\ UNCHANGED <<tool, strippedBin, libClang, manifestData, hardlinked, workTar,
                 permIssues, finalArchiveBound, chunksRead, outDir, artifact,
                 sizeArgMb, pos, parts, splitReturned, joinDir, joinExit>>
  /\ UNCHANGED <<dedupVars, archVars, procVars, expandVars, updateVars, downloadVars>>

\* urlretrieve: one block is read and written, the connection breaks, or
\* the end is reached and the file is closed
FetchUrlRead ==
  /\ tool = "download_file"
  /\ stage = "urlretrieve_read"
  /\ LET have == Len(fetchDir[OutputPath].data)
     IN  \/ /\ have < Len(fetchUrl.data)
            /\ fetchDir' = WriteFile(fetchDir, OutputPath,
                             Fetched("partial", SubSeq(fetchUrl.data, 1, have + 1)))
            /\ UNCHANGED stage
            /\ UNCHANGED fetchExc
         \/ /\ have < Len(fetchUrl.data)
            /\ stage' = "except_unlink_output"
            /\ fetchExc' = "ContentTooShortError"
            /\ UNCHANGED fetchDir
         \/ /\ have = Len(fetchUrl.data)
            /\ fetchDir' = WriteFile(fetchDir, OutputPath, Fetched("complete", fetchUrl.data))
            /\ stage' = "unlink_breadcrumb"
            /\ UNCHANGED fetchExc
  /\ UNCHANGED fetchUrl
  /\ UNCHANGED <<tool, strippedBin, libClang, manifestData, hardlinked, workTar,
                 permIssues, finalArchiveBound, chunksRead, outDir, artifact,
                 sizeArgMb, pos, parts, splitReturned, joinDir, joinExit>>
  /\ UNCHANGED <<dedupVars, archVars, procVars, expandVars, updateVars, downloadVars>>

\* line 217: breadcrumb_path.unlink(missing_ok=True), and the return
FetchUnlinkBreadcrumb ==
  /\ tool = "download_file"
  /\ stage = "unlink_breadcrumb"
  /\ fetchDir' = RemoveFile(fetchDir, BreadcrumbPath(OutputPath))
  /\ stage' = "returned"
  /\ UNCHANGED <<fetchUrl, fetchExc>>
  /\ UNCHANGED <<tool, strippedBin, libClang, manifestData, hardlinked, workTar,
                 permIssues, finalArchiveBound, chunksRead, outDir, artifact,
                 sizeArgMb, pos, parts, splitReturned, joinDir, joinExit>>
  /\ UNCHANGED <<dedupVars, archVars, procVars, expandVars, updateVars, downloadVars>>

\* lines 220-221: output_path.unlink() raises on a directory, and the
\* exception leaves the handler
FetchExceptUnlinkOutput ==
  /\ tool = "download_file"
  /\ stage = "except_unlink_output"
  /\ IF OutputPath \notin DOMAIN fetchDir
     THEN /\ stage' = "except_unlink_breadcrumb"
          /\ UNCHANGED <<fetchDir, fetchExc>>
     ELSE IF fetchDir[OutputPath].kind = "dir"
     THEN /\ stage' = "raised"
          /\ fetchExc' = "IsADirectoryError"
          /\ UNCHANGED fetchDir
     ELSE /\ fetchDir' = RemoveFile(fetchDir, OutputPath)
          /\ stage' = "except_unlink_breadcrumb"
          /\ UNCHANGED fetchExc
  /\ UNCHANGED fetchUrl
  /\ UNCHANGED <<tool, strippedBin, libClang, manifestData, hardlinked, workTar,
                 permIssues, finalArchiveBound, chunksRead, outDir, artifact,
                 sizeArgMb, pos, parts, splitReturned, joinDir, joinExit>>
  /\ UNCHANGED <<dedupVars, archVars, procVars, expandVars, updateVars, downloadVars>>

\* lines 222-223: breadcrumb_path.unlink(missing_ok=True); raise
FetchExceptUnlinkBreadcrumb ==
  /\ tool = "download_file"
  /\ stage = "except_unlink_breadcrumb"
  /\ fetchDir' = RemoveFile(fetchDir, BreadcrumbPath(OutputPath))
  /\ stage' = "raised"
  /\ UNCHANGED <<fetchUrl, fetchExc>>
  /\ UNCHANGED <<tool, strippedBin, libClang, manifestData, hardlinked, workTar,
                 permIssues, finalArchiveBound, chunksRead, outDir, artifact,
                 sizeArgMb, pos, parts, splitReturned, joinDir, joinExit>>
  /\ UNCHANGED <<dedupVars, archVars, procVars, expandVars, updateVars, downloadVars>>

\* Ctrl+C before a statement: inside the try body the handler runs, anywhere
\* else KeyboardInterrupt leaves the function at once
FetchInterrupt ==
  /\ tool = "download_file"
  /\ stage \in FetchOutsideTry \cup FetchInsideTry \cup FetchInHandler
  /\ stage' = IF stage \in FetchInsideTry THEN "except_unlink_output" ELSE "raised"
  /\ fetchExc' = "KeyboardInterrupt"
  /\ UNCHANGED <<fetchDir, fetchUrl>>
  /\ UNCHANGED <<tool, strippedBin, libClang, manifestData, hardlinked, workTar,
                 permIssues, finalArchiveBound, chunksRead, outDir, artifact,
                 sizeArgMb, pos, parts, splitReturned, joinDir, joinExit>>
  /\ UNCHANGED <<dedupVars, archVars, procVars, expandVars, updateVars, downloadVars>>

\* what an earlier run left at the two paths, and what the URL gives
InitFetch ==
  /\ srcDir = <<>>
  /\ DedupIdle
  /\ ArchIdle
  /\ ProcIdle
  /\ tool = "download_file"
  /\ stage = "touch"
  /\ strippedBin = <<>>
  /\ libClang = <<>>
  /\ manifestData = NoResult
  /\ hardlinked = <<>>
  /\ workTar = AbsentFile
  /\ permIssues = <<>>
  /\ finalArchiveBound = FALSE
  /\ chunksRead = 0
  /\ outDir = <<>>
  /\ artifact = <<>>
  /\ sizeArgMb = 0
  /\ pos = 0
  /\ parts = <<>>
  /\ splitReturned = "no"
  /\ joinDir = <<>>
  /\ joinExit = NoResult
  /\ ExpandIdle
  /\ UpdateIdle
  /\ DownloadIdle
  /\ fetchExc = "none"
  /\ fetchUrl \in {[status |-> "URLError", data |-> <<>>]}
                    \cup {[status |-> "ok", data |-> d] : d \in BytesUpTo(MaxFetchBytes)}
  /\ \E old \in {<<>>} \cup {<<e>> : e \in {Fetched("complete", <<1>>), FetchDirEntry}},
        crumb \in BOOLEAN :
       fetchDir = [n \in (IF old = <<>> THEN {} ELSE {OutputPath})
                      \cup (IF crumb THEN {BreadcrumbPath(OutputPath)} ELSE {}) |->
                     IF n = OutputPath THEN old[1] ELSE Fetched("complete", <<>>)]

NextFetch ==
  \/ FetchTouch
  \/ FetchEnterTry
  \/ FetchUrlOpen
  \/ FetchUrlRead
  \/ FetchUnlinkBreadcrumb
  \/ FetchExceptUnlinkOutput
  \/ FetchExceptUnlinkBreadcrumb
  \/ FetchInterrupt

SpecFetch == InitFetch /\ [][NextFetch]_vars

(***************************************************************************)
(* Vocabulary of the properties: stated from the directory contents, not   *)
(* from the builders' intermediate tables.                                 *)
(***************************************************************************)
FileNames(dir) == {n \in DOMAIN dir : dir[n].kind = "file"}
ExeNames(dir) == {n \in DOMAIN dir : IsExe(n)}

\* the names of S holding the same bytes as n
Twins(dir, S, n) == {m \in S : dir[m].data = dir[n].data}

LexMin(S) == CHOOSE n \in S : \A m \in S : n = m \/ StrLess(n, m)

RECURSIVE SumOver(_, _)
SumOver(S, F) ==
  IF S = {} THEN 0
  ELSE LET x == CHOOSE y \in S : TRUE IN F[x] + SumOver(S \ {x}, F)

OkRuns == {r \in 1..Len(dedupRuns) : dedupRuns[r].status = "ok"}

\* every manifest the two builders have produced, with the names it scanned
Produced ==
  {[md |-> dedupRuns[r], scanned |-> ExeNames(srcDir)] : r \in OkRuns}
  \cup (IF pipeOut.status = "ok"
        THEN {[md |-> pipeOut, scanned |-> FileNames(srcDir)]}
        ELSE {})

(***************************************************************************)
(* C1: create_deduped_structure(D, X) followed by                          *)
(* expand_deduped_structure(X, O), O holding nothing but what the          *)
(* expansion wrote, gives an output bin directory whose file names are D's *)
(* file names and whose contents are D's contents.                         *)
(***************************************************************************)
C1_RoundTripIdentity ==
  (expandStatus = "ok" /\ DOMAIN outBin = expandWrote) =>
     /\ DOMAIN outBin = FileNames(srcDir)
     /\ \A n \in DOMAIN outBin : outBin[n] = srcDir[n].data

(***************************************************************************)
(* C2: two dedup runs on the same unmodified directory write the same      *)
(* manifest document, key order included, whatever order the directory     *)
(* listing returned the files in.                                          *)
(***************************************************************************)
C2_ManifestDeterminism ==
  \A r1, r2 \in 1..Len(dedupRuns) : dedupRuns[r1] = dedupRuns[r2]

(***************************************************************************)
(* C3: in every manifest produced, each name maps to the lexicographically *)
(* smallest name among the scanned files holding the same content,         *)
(* whatever the scan order was.                                            *)
(***************************************************************************)
C3_CanonicalIsSmallest ==
  \A p \in Produced :
    /\ \A i \in 1..Len(p.md.manifest) :
         p.md.manifest[i][2] = LexMin(Twins(srcDir, p.scanned, p.md.manifest[i][1]))
    /\ \A j \in 1..Len(p.md.canonical_files) :
         \E n \in p.scanned :
           /\ Md5[srcDir[n].data] = p.md.canonical_files[j][1]
           /\ p.md.canonical_files[j][2] = LexMin(Twins(srcDir, p.scanned, n))

\* three files of one content were listed with the largest name first
C3_Witness ==
  \E r \in OkRuns :
    /\ Len(dedupRuns[r].manifest) = 3
    /\ \A i \in 1..3 : dedupRuns[r].manifest[i][2] = A_exe
    /\ dedupRuns[r].manifest[1][1] = B_exe

(***************************************************************************)
(* C4: in every manifest produced, the keys of the mapping are exactly the *)
(* scanned names, each key resolves in one lookup to a value of            *)
(* canonical_files, every canonical name maps to itself and a name with    *)
(* unique content maps to itself.                                          *)
(***************************************************************************)
C4_MappingResolves ==
  \A p \in Produced :
    LET m == p.md.manifest
        cf == p.md.canonical_files
    IN  /\ Keys(m) = p.scanned
        /\ Cardinality(Keys(m)) = Len(m)
        /\ \A k \in Keys(m) : Lookup(m, k) \in Values(cf)
        /\ \A c \in Values(cf) : c \in Keys(m) /\ Lookup(m, c) = c
        /\ \A n \in p.scanned :
             Twins(srcDir, p.scanned, n) = {n} => n \in Keys(m) /\ Lookup(m, n) = n

\* a manifest with a duplicate group and a file of unique content
C4_Witness ==
  \E p \in Produced :
    /\ \E i \in 1..Len(p.md.manifest) : p.md.manifest[i][1] # p.md.manifest[i][2]
    /\ \E n \in p.scanned : Twins(srcDir, p.scanned, n) = {n}

(***************************************************************************)
(* C5: with K files being a duplicate of another file, the stats of every  *)
(* builder give duplicate_count = K and savings = total_size -             *)
(* deduped_size = the bytes of the K duplicates, savings = 0 when K = 0,   *)
(* and the builder returns with savings_percent 0 when total_size is 0.    *)
(***************************************************************************)
DuplicateCount(dir, S) == Cardinality(S) - Cardinality({dir[n].data : n \in S})

DuplicateBytes(dir, S) ==
  SumOver(S, [n \in S |-> Len(dir[n].data)])
  - SumOver({dir[n].data : n \in S}, [c \in {dir[n].data : n \in S} |-> Len(c)])

TotalBytes(dir, S) == SumOver(S, [n \in S |-> Len(dir[n].data)])

StatsRight(stats, dir, S) ==
  /\ stats.duplicate_count = DuplicateCount(dir, S)
  /\ stats.savings = stats.total_size - stats.deduped_size
  /\ stats.savings = DuplicateBytes(dir, S)
  /\ stats.total_size = TotalBytes(dir, S)
  /\ DuplicateCount(dir, S) = 0 => stats.savings = 0
  /\ stats.total_size = 0 => stats.savings_percent = <<0, 1>>

C5_SavingsCorrect ==
  /\ \A r \in 1..Len(dedupRuns) :
       (\A n \in ExeNames(srcDir) : srcDir[n].kind = "file") =>
          /\ dedupRuns[r].status = "ok"
          /\ StatsRight(dedupRuns[r].stats, srcDir, ExeNames(srcDir))
  /\ pipeOut.status # "none" =>
       /\ pipeOut.status = "ok"
       /\ StatsRight(pipeOut.stats, srcDir, FileNames(srcDir))

(***************************************************************************)
(* C6: after create_deduped_structure returns, <dest>/canonical holds      *)
(* exactly one file per distinct content of the source files, named after  *)
(* the smallest name of that content, and no two of its files are equal,   *)
(* whatever the directory held before.                                     *)
(***************************************************************************)
C6_CanonicalStoreExact ==
  OkRuns # {} =>
    /\ DOMAIN destCanonical =
         {LexMin(Twins(srcDir, FileNames(srcDir), n)) : n \in FileNames(srcDir)}
    /\ \A n \in DOMAIN destCanonical : destCanonical[n] = srcDir[n].data
    /\ \A n, m \in DOMAIN destCanonical : destCanonical[n] = destCanonical[m] => n = m

(***************************************************************************)
(* Vocabulary of the packaging properties.                                 *)
(***************************************************************************)
BinEntries(t) == {p \in DOMAIN t : StartsWith(p, Root \o SlashBin)}

ExpanderReturned == pc \notin {"idle", "start"}

FileMembers == {i \in 1..Len(tarFile.members) : tarFile.members[i].type = "file"}

UnderBinRoot(name) == Contains(name, SlashBin) /\ ~Contains(name, SlashLib)
UnderLibRoot(name) == Contains(name, SlashLib)
IsHeaderLike(name) == EndsWithAny(name, HeaderSuffixes)
IsSharedLib(name) == EndsWithAny(name, SharedSuffixes) \/ Contains(name, DotSoDot)

\* the path matches one of the packager's rules
MatchesRule(name) ==
  \/ UnderBinRoot(name)
  \/ UnderLibRoot(name) /\ (IsHeaderLike(name) \/ IsSharedLib(name) \/ Contains(name, SlashBin))

(***************************************************************************)
(* C7: when the structure expander has finished, the destination bin       *)
(* directory holds exactly len(mapping) entries and each entry's digest is *)
(* the digest of its group's canonical file.                               *)
(***************************************************************************)
C7_ExpandedLayoutExact ==
  ExpanderReturned =>
    /\ Cardinality(BinEntries(tree)) = Len(manifestFile)
    /\ \A p \in BinEntries(tree) :
         \E k \in Keys(manifestFile) :
           /\ p = BinPath(k)
           /\ Lookup(manifestFile, k) \in DOMAIN canonicalDir
           /\ Md5[tree[p].data] = Md5[canonicalDir[Lookup(manifestFile, k)].data]

(***************************************************************************)
(* C8: when the manifest names a canonical file that is missing from the   *)
(* canonical directory the run aborts: no tar is created and no later      *)
(* stage is reached.                                                       *)
(***************************************************************************)
C8_MissingCanonicalIsFatal ==
  skipped # {} =>
    /\ tarFile = AbsentFile
    /\ zstFile = "absent"
    /\ pc \notin {"tarred", "perms_verified", "done", "done_uncompressed"}

(***************************************************************************)
(* C9: verify_tar_permissions, run on the archive create_tar_archive has   *)
(* just written, finds no issue and does not raise.                        *)
(***************************************************************************)
C9_NoFalsePositive == issues = <<>> /\ pc # "failed"

Mismatches(members) ==
  SelectSeq(members, LAMBDA m : m.type = "file" /\ MemberIssue(m) # <<>>)

CompressionStarted ==
  \/ zstandard # "untried"
  \/ finalArchiveBound
  \/ ArchiveFile \in DOMAIN outDir

\* C11: the verifier reports every mismatching file entry of the tar, and a
\* tar with a mismatch ends the run with a non-zero exit status before
\* compression starts, so that no .tar.zst exists for it.
C11_MismatchStopsBeforeCompression ==
  workTar.status = "written" =>
    LET bad == Mismatches(workTar.members)
    IN  /\ (permIssues # <<>> \/ CompressionStarted) =>
              [i \in 1..Len(permIssues) |-> permIssues[i].name]
                = [i \in 1..Len(bad) |-> bad[i].name]
        /\ bad # <<>> =>
              /\ ~CompressionStarted
              /\ stage = "exited" => exitCode \in {<<1>>, <<130>>}
              /\ (stage = "exited" /\ permIssues # <<>>) => exitCode = <<1>>

C11_Witness ==
  /\ stage = "exited"
  /\ exitCode = <<1>>
  /\ workTar.status = "written"
  /\ Len(Mismatches(workTar.members)) = 2
  /\ Len(permIssues) = 2
  /\ ~CompressionStarted

(***************************************************************************)
(* The splitters and the join helpers.                                     *)
(***************************************************************************)
PartNamesOnDisk(dir) == {n \in DOMAIN dir : dir[n].kind = "part"}

\* the part files of dir are name.part1 .. name.partK for some K
NumberedFromOne(dir, name) ==
  PartNamesOnDisk(dir) = {PartName(name, i) : i \in 1..Cardinality(PartNamesOnDisk(dir))}

\* the bytes of name.part1, name.part2, ... one after the other
ConcatInPartOrder(dir, name) ==
  Flatten([i \in 1..Cardinality(PartNamesOnDisk(dir)) |-> dir[PartName(name, i)].data])

SplitterDone == splitReturned = "parts"

JoinRan == joinExit.status = "exited"

AllPartsFetched == PartNamesOnDisk(outDir) \subseteq DOMAIN joinDir

\* C12: the parts a splitter has written, concatenated in part-number
\* order, are the bytes of the original archive; a generated join helper
\* that finds every part writes exactly those bytes.
C12_SplitJoinRoundTrip ==
  /\ SplitterDone =>
        /\ NumberedFromOne(outDir, ArchiveFile)
        /\ ConcatInPartOrder(outDir, ArchiveFile) = artifact
  /\ (JoinRan /\ AllPartsFetched) =>
        /\ ArchiveFile \in DOMAIN joinDir
        /\ joinDir[ArchiveFile].data = artifact

C12_Witness ==
  /\ JoinRan
  /\ AllPartsFetched
  /\ Len(parts) = 3
  /\ joinDir[ArchiveFile].data = artifact
  /\ Len(outDir[PartName(ArchiveFile, 3)].data) < Len(outDir[PartName(ArchiveFile, 1)].data)

CeilDiv(a, b) == (a + b - 1) \div b

PartLen(i) == Len(outDir[parts[i].path].data)

\* the ceiling the caller passed, in bytes
CeilingBytes == sizeArgMb * BytesPerMB

\* the window a splitter reads with: split_archive.py reads the ceiling,
\* step 9 of the pipeline reads 1 MB less
WindowBytes ==
  IF tool = "split_archive.py" THEN sizeArgMb * BytesPerMB
  ELSE sizeArgMb * BytesPerMB - BytesPerMB

\* C13 as stated: a splitter writes ceil(size / ceiling) parts for the
\* ceiling the caller passes, each but the last exactly ceiling bytes long.
C13_PartCountForCeiling ==
  SplitterDone =>
    /\ Len(parts) = CeilDiv(Len(artifact), CeilingBytes)
    /\ \A i \in 1..(Len(parts) - 1) : PartLen(i) = CeilingBytes

\* C13 amended: split_archive.py writes ceil(size / ceiling) parts of the
\* ceiling (250 MB at 100 MB: 100, 100, 50); step 9 of the pipeline leaves
\* an archive of at most the ceiling unsplit and otherwise writes
\* ceil(size / (ceiling - 1 MB)) parts of ceiling - 1 MB; in both the last
\* part alone may be shorter.
C13_PartCountForWindow ==
  /\ SplitterDone =>
        /\ Len(parts) = CeilDiv(Len(artifact), WindowBytes)
        /\ \A i \in 1..(Len(parts) - 1) : PartLen(i) = WindowBytes
        /\ (tool = "split_archive.py" /\ sizeArgMb = 100
              /\ Len(artifact) = 250 * BytesPerMB) =>
              [i \in 1..Len(parts) |-> PartLen(i)]
                = <<100 * BytesPerMB, 100 * BytesPerMB, 50 * BytesPerMB>>
        /\ tool = "fetch_and_archive" => Len(artifact) > CeilingBytes
  /\ splitReturned = "None" =>
        /\ Len(artifact) <= CeilingBytes
        /\ PartNamesOnDisk(outDir) = {}
        /\ ArchiveFile \in DOMAIN outDir \/ stage = "exited"

C13_Witness ==
  /\ tool = "fetch_and_archive"
  /\ SplitterDone
  /\ Len(artifact) = 250 * BytesPerMB
  /\ Len(parts) = 3
  /\ PartLen(1) = 98 * BytesPerMB
  /\ PartLen(3) = 54 * BytesPerMB

\* str(i) for the part numbers of the model, digit by digit
PartSuffix(i) ==
  IF i < 10 THEN <<Digits[i + 1]>>
  ELSE <<Digits[(i \div 10) + 1], Digits[(i % 10) + 1]>>

NamedInOrder ==
  /\ \A i \in 1..Len(parts) :
        parts[i].path = ArchiveFile \o <<".", "p", "a", "r", "t">> \o PartSuffix(i)
  /\ PartNamesOnDisk(outDir) = {parts[i].path : i \in 1..Len(parts)}

\* C14 as stated: the parts are <archive>.part1, .part2, ... without gaps
\* or repeats, none is empty, none exceeds the ceiling, and only the final
\* part may be smaller than the ceiling.
C14_PartsNumberedAndFull ==
  SplitterDone =>
    /\ NamedInOrder
    /\ \A i \in 1..Len(parts) : PartLen(i) > 0 /\ PartLen(i) <= CeilingBytes
    /\ \A i \in 1..(Len(parts) - 1) : PartLen(i) = CeilingBytes

\* C14 amended: as stated, except that only the final part may be smaller
\* than the window the splitter reads with (the ceiling for
\* split_archive.py, the ceiling less 1 MB for step 9 of the pipeline).
C14_PartsNumberedAndWindowed ==
  SplitterDone =>
    /\ NamedInOrder
    /\ \A i \in 1..Len(parts) : PartLen(i) > 0 /\ PartLen(i) <= CeilingBytes
    /\ \A i \in 1..(Len(parts) - 1) : PartLen(i) = WindowBytes

C14_Witness ==
  /\ tool = "split_archive.py"
  /\ SplitterDone
  /\ Len(parts) = 11
  /\ PartLen(11) < PartLen(10)

\* C15: a join helper that misses a part exits with a non-zero status and
\* leaves no output file made of the parts it did find.
C15_JoinFailsOnMissingPart ==
  (JoinRan /\ ~AllPartsFetched) =>
    /\ joinExit.code # 0
    /\ ArchiveFile \notin DOMAIN joinDir

\* C16: once a splitter has written all parts of an archive, the archive
\* is no longer next to them; and it is never gone while only some of the
\* parts have been written.
C16_OriginalGoneOnceSplit ==
  /\ (SplitterDone /\ parts # <<>>) => ArchiveFile \notin DOMAIN outDir
  /\ (PartNamesOnDisk(outDir) # {} /\ ArchiveFile \notin DOMAIN outDir) => SplitterDone

\* the bytes of the archive that belong to part i when every part before
\* it has the length of part 1
ByteRange(i) ==
  SubSeq(artifact, (i - 1) * PartLen(1) + 1,
         IF i * PartLen(1) < Len(artifact) THEN i * PartLen(1) ELSE Len(artifact))

C18_NoPartialOutputAfterInterrupt ==
  (ArchiveFile \in DOMAIN outDir /\ outDir[ArchiveFile].status = "partial") =>
    stage = "compress_loop"

\* the expanded copy holds some but not all of the names of the manifest
HalfExpanded ==
  /\ hardlinked # <<>>
  /\ manifestData # NoResult
  /\ \E name \in Keys(manifestData.manifest) : BinPath(name) \notin DOMAIN hardlinked

\* C19: after a cancelled run of the pipeline no partially written tar,
\* compressed artifact, part or expanded copy is left, and no parts are
\* left without the archive they were cut from unless all were written.
C19_CancelLeavesNoPartialOutput ==
  (tool = "fetch_and_archive" /\ stage = "exited" /\ exitCode = <<130>>) =>
    /\ ~(ArchiveFile \in DOMAIN outDir /\ outDir[ArchiveFile].status = "partial")
    /\ workTar.status # "partial"
    /\ \A n \in PartNamesOnDisk(outDir) : outDir[n].status = "complete"
    /\ PartNamesOnDisk(outDir) # {} =>
          (ArchiveFile \in DOMAIN outDir \/ splitReturned = "parts")
    /\ ~HalfExpanded

\* C20: a run that finds the zstandard codec missing does not end with
\* exit status 0, leaving the uncompressed tar as its result, and has
\* created no .tar.zst.
C20_MissingCodecIsFatal ==
  zstandard = "ImportError" =>
    /\ exitCode # <<0>>
    /\ zstFile = "absent"
    /\ ArchiveFile \notin DOMAIN outDir

SidecarsOnDisk(dir) == {n \in DOMAIN dir : dir[n].kind = "sidecar"}

CompressReturned ==
  /\ zstandard = "imported"
  /\ artifact # <<>>
  /\ stage \notin {"compress_with_zstd", "compress_loop"}

\* C21: the checksum step runs only on the closed, complete archive, after
\* compress_with_zstd has returned, and the digest in each sidecar is the
\* digest of the bytes of the final archive.
C21_ChecksumOfFinishedArchive ==
  /\ tool = "create_iwyu_archives" =>
        /\ stage = "generate_checksum" =>
              /\ CompressReturned
              /\ outDir[ArchiveFile] = [kind |-> "zstd", status |-> "complete", data |-> artifact]
        /\ \A n \in {m \in DOMAIN outDir : outDir[m].kind = "text"} :
              /\ CompressReturned
              /\ outDir[n].data[1] = <<"sha256", artifact>>
              /\ outDir[ArchiveFile].data = artifact
  /\ tool = "fetch_and_archive" =>
        /\ stage = "generate_checksums" =>
              /\ CompressReturned
              /\ chunksRead = workTar.chunks
              /\ outDir[ArchiveFile] = [kind |-> "zstd", status |-> "complete", data |-> artifact]
        /\ \A n \in SidecarsOnDisk(outDir) :
              /\ CompressReturned
              /\ n = ArchiveFile \o <<".", "s", "h", "a", "2", "5", "6">> =>
                    outDir[n].digest = <<"sha256", artifact>>
              /\ n = ArchiveFile \o <<".", "m", "d", "5">> =>
                    outDir[n].digest = <<"md5", artifact>>
              /\ ArchiveFile \in DOMAIN outDir => outDir[ArchiveFile].data = artifact

C21_Witness ==
  /\ tool = "fetch_and_archive"
  /\ stage = "exited"
  /\ exitCode = <<0>>
  /\ splitReturned = "None"
  /\ Len(artifact) > 1
  /\ Cardinality(SidecarsOnDisk(outDir)) = 2
  /\ outDir[ArchiveFile \o DotSha256].digest = <<"sha256", outDir[ArchiveFile].data>>

\* the file is there, is JSON, and its "manifest" maps names to names
ManifestWellFormed(file) ==
  /\ file.status = "written"
  /\ file.json = "manifest_is_object"
  /\ \A i \in 1..Len(file.manifest) : file.manifest[i][2].type = "str"

\* C22: on a missing or malformed manifest the archive tool exits with an
\* error and the expander raises, and neither has created an expanded
\* file, a tar or a compressed archive.
C22_BadManifestStopsBeforeOutput ==
  ~ManifestWellFormed(destManifest) =>
    /\ pc # "start" =>
          /\ pc = "exited"
          /\ exitCode = <<1>>
          /\ tree = <<>>
          /\ tarFile = AbsentFile
          /\ zstFile = "absent"
    /\ expandStatus # "none" =>
          /\ expandStatus = "error"
          /\ outBin = <<>>

\* C23: whether or not os.link failed for a name, create_hardlink_structure
\* returns, and every name whose canonical file exists is in the layout
\* with the canonical's content.
C23_LinkFailureFallsBackToCopy ==
  pc \notin {"idle", "start"} =>
    /\ pc # "exited"
    /\ \A i \in 1..Len(manifestFile) :
          LET name == manifestFile[i][1]
              canonical == manifestFile[i][2]
          IN  canonical \in DOMAIN canonicalDir =>
                /\ BinPath(name) \in DOMAIN tree
                /\ tree[BinPath(name)].data = canonicalDir[canonical].data

\* a name of a group sits on an inode of its own next to the group's copy
C23_Witness ==
  /\ pc = "hardlinked"
  /\ \E i, j \in 1..Len(manifestFile) :
        /\ i # j
        /\ manifestFile[i][2] = manifestFile[j][2]
        /\ manifestFile[i][2] = manifestFile[i][1]
        /\ BinPath(manifestFile[i][1]) \in DOMAIN tree
        /\ BinPath(manifestFile[j][1]) \in DOMAIN tree
        /\ tree[BinPath(manifestFile[j][1])].ino # tree[BinPath(manifestFile[i][1])].ino
        /\ tree[BinPath(manifestFile[j][1])].data = tree[BinPath(manifestFile[i][1])].data
        /\ tree[BinPath(manifestFile[j][1])].data # <<>>

\* the stage main() of fetch_and_archive.py is in, counted from step 4
StageRank ==
  [deduplicate_binaries |-> 1, create_hardlink_structure |-> 2, create_tar_archive |-> 3,
   verify_tar_permissions |-> 4, compress_with_zstd |-> 5, compress_loop |-> 5,
   generate_checksums |-> 6, split_archive |-> 7, split_loop |-> 7, cleanup |-> 8]

Expanded ==
  /\ manifestData # NoResult
  /\ \A name \in Keys(manifestData.manifest) : BinPath(name) \in DOMAIN hardlinked

\* fetch_and_archive.py: a stage is entered only with the results of all
\* stages before it, and the result of a stage exists only if the stages
\* before it have produced theirs
PipelineInOrder ==
  /\ stage \in DOMAIN StageRank =>
        LET k == StageRank[stage]
        IN  /\ k >= 2 => manifestData.status = "ok" /\ destManifest = manifestData
            /\ k >= 3 => Expanded
            /\ k >= 4 => workTar.status = "written"
            /\ k >= 5 => permIssues = <<>> /\ Mismatches(workTar.members) = <<>>
            /\ k \in {6, 7} => /\ ArchiveFile \in DOMAIN outDir
                                /\ outDir[ArchiveFile].status = "complete"
            /\ k >= 7 => Cardinality(SidecarsOnDisk(outDir)) = 2
            /\ k = 8 => splitReturned # "no"
            /\ k < 2 => destManifest = AbsentFile /\ hardlinked = <<>>
            /\ k < 3 => workTar = AbsentFile
            /\ k < 5 => ~CompressionStarted
            /\ k < 6 => SidecarsOnDisk(outDir) = {}
            /\ k < 7 => PartNamesOnDisk(outDir) = {} /\ splitReturned = "no"
  /\ manifestData = NoResult => destManifest = AbsentFile /\ hardlinked = <<>>
  /\ workTar # AbsentFile => Expanded
  /\ (CompressionStarted /\ splitReturned = "no") =>
        /\ workTar.status = "written"
        /\ permIssues = <<>>
  /\ SidecarsOnDisk(outDir) # {} => CompressReturned
  /\ (PartNamesOnDisk(outDir) # {} \/ splitReturned # "no") =>
        Cardinality(SidecarsOnDisk(outDir)) = 2

\* create_hardlink_archive.py: the same for its expand, tar, verify and
\* compress stages; a name skipped in expand and an issue found in verify
\* are failures of their stage
ArchiveInOrder ==
  /\ pc \in {"start", "hardlinked", "links_verified"} =>
        tarFile = AbsentFile /\ zstFile = "absent"
  /\ pc = "start" => tree \in StaleTrees
  /\ pc \in {"tarred", "failed"} => tarFile.status = "written" /\ zstFile = "absent"
  /\ zstFile = "compressed" => pc = "done" /\ issues = <<>>
  /\ issues # <<>> => pc = "failed" /\ zstFile = "absent"
  /\ skipped # {} => tarFile = AbsentFile /\ zstFile = "absent"

\* C24: the stages of one packaging run happen one after another in the
\* order manifest, manifest saved, expand, tar, verify, compress,
\* checksum, split; none starts before the one before it has succeeded,
\* and nothing of a later stage exists once a stage has failed.
C24_StagesInOrder ==
  /\ tool = "fetch_and_archive" => PipelineInOrder
  /\ pc # "idle" => ArchiveInOrder

\* the names the manifest maps to canonical c
GroupOf(c) == {manifestFile[i][1] : i \in {j \in 1..Len(manifestFile) : manifestFile[j][2] = c}}

\* C25: for every group whose canonical file exists, the layout holds one
\* copy, made under the canonical name, and every other name of the group
\* whose link succeeded is on the inode of that copy.
C25_OneCopyPerGroup ==
  /\ pc = "start" =>
        \A linkFails \in SUBSET Keys(manifestFile) :
          LET r == HardlinkLoop(SortedItems(manifestFile), canonicalDir, linkFails,
                                [tree |-> tree, copied |-> <<>>, skipped |-> {}])
          IN  \A c \in Values(manifestFile) \cap DOMAIN canonicalDir :
                /\ r.copied[c] = BinPath(c)
                /\ r.tree[BinPath(c)].ino = BinPath(c)
                /\ \A name \in GroupOf(c) \ ({c} \cup linkFails) :
                      r.tree[BinPath(name)].ino = BinPath(c)
                /\ Cardinality({r.tree[BinPath(name)].ino : name \in GroupOf(c)})
                     = 1 + Cardinality((GroupOf(c) \ {c}) \cap linkFails)
  /\ pc \notin {"idle", "start", "exited"} =>
        \A c \in Values(manifestFile) \cap DOMAIN canonicalDir :
          /\ BinPath(c) \in DOMAIN tree
          /\ tree[BinPath(c)].ino = BinPath(c)
          /\ \A name \in GroupOf(c) :
                /\ BinPath(name) \in DOMAIN tree
                /\ tree[BinPath(name)].ino \in {BinPath(c), BinPath(name)}

C25_Witness ==
  /\ pc = "hardlinked"
  /\ \E c \in Values(manifestFile) \cap DOMAIN canonicalDir :
        /\ Cardinality(GroupOf(c)) = 3
        /\ \A name \in GroupOf(c) :
              /\ BinPath(name) \in DOMAIN tree
              /\ tree[BinPath(name)].ino = BinPath(c)
        /\ \A name \in GroupOf(c) : ~StrLess(name, c)

\* bin/ below the root the archive was extracted to
ExtractedBin == outputDir[archive.root].bin

\* C26: once expand_zst_archive has returned, bin/ holds the names and the
\* contents of the archive; without keep_hardlinks no two .exe files share
\* an inode, with keep_hardlinks every file is on the inode tar gave it.
C26_ExpandBreaksHardlinks ==
  (tool = "expand_archive" /\ stage = "returned") =>
    /\ DOMAIN ExtractedBin = DOMAIN archive.bin
    /\ \A n \in DOMAIN ExtractedBin : ExtractedBin[n].data = archive.bin[n].data
    /\ ~keepHardlinks =>
          \A m, n \in {x \in DOMAIN ExtractedBin : IsExe(x)} :
            m # n => ExtractedBin[m].ino # ExtractedBin[n].ino
    /\ keepHardlinks => \A n \in DOMAIN ExtractedBin : ExtractedBin[n].ino[1] = "tar"

\* the dicts agree on every key but `key`, which both have
SameExcept(old, new, key) ==
  /\ Keys(new) = Keys(old)
  /\ key \in Keys(old)
  /\ \A k \in Keys(old) \ {key} : DictGet(new, k) = DictGet(old, k)

\* the entry matches the archive and the new one differs from it in
\* 'sha256' and 'parts' only, which hold the digest of the whole archive
\* and the parts in part-number order, each with its own digest
EntryUpdated(old, new) ==
  /\ old.type = "dict" /\ new.type = "dict"
  /\ DictHas(old.items, HrefKey)
  /\ Contains(DictGet(old.items, HrefKey).s, ArchiveFile)
  /\ Keys(new.items) = Keys(old.items) \cup {Sha256Key, PartsKey}
  /\ \A k \in Keys(old.items) \ {Sha256Key, PartsKey} :
        DictGet(new.items, k) = DictGet(old.items, k)
  /\ DictGet(new.items, Sha256Key) = JsonStr(Sha256(artifact))
  /\ DictGet(new.items, PartsKey).type = "list"
  /\ LET list == DictGet(new.items, PartsKey).items
     IN  /\ Len(list) = Len(artifact)
         /\ \A i \in 1..Len(list) :
               /\ DictGet(list[i].items, HrefKey)
                    = JsonStr(BaseUrl \o <<"/">> \o PartName(ArchiveFile, i))
               /\ DictGet(list[i].items, Sha256Key) = JsonStr(Sha256(<<artifact[i]>>))

SomeEntryMatches(items) ==
  \/ FirstMatch(items, ArchiveFile, TRUE) # <<>>
  \/ /\ DictHas(items, VersionsKey)
     /\ FirstMatch(DictGet(items, VersionsKey).items, ArchiveFile, FALSE) # <<>>

\* the manifest is as before but for one matching entry, at the top level
\* or below 'versions'
OneEntryUpdated(old, new) ==
  \/ \E key \in Keys(old) \ {LatestKey, VersionsKey} :
        /\ SameExcept(old, new, key)
        /\ EntryUpdated(DictGet(old, key), DictGet(new, key))
  \/ /\ SameExcept(old, new, VersionsKey)
     /\ DictGet(new, VersionsKey).type = "dict"
     /\ \E key \in Keys(DictGet(old, VersionsKey).items) :
          /\ SameExcept(DictGet(old, VersionsKey).items, DictGet(new, VersionsKey).items, key)
          /\ EntryUpdated(DictGet(DictGet(old, VersionsKey).items, key),
                          DictGet(DictGet(new, VersionsKey).items, key))

\* C27: update_manifest_with_parts leaves manifest.json as it was, but for
\* 'sha256' and 'parts' of one version entry whose href contains the archive
\* name; with no manifest or no such entry the file is untouched.
C27_OnlyShaAndPartsChange ==
  [][(tool = "split_archive.py" /\ stage = "update_manifest_with_parts") =>
       \/ manifestJson' = manifestJson
       \/ /\ manifestJson # AbsentFile /\ manifestJson' # AbsentFile
          /\ SomeEntryMatches(manifestJson.json)
          /\ OneEntryUpdated(manifestJson.json, manifestJson'.json)]_vars

\* the directory holds regular files with names ending in .exe, nothing else
OnlyRegularExe(dir) == \A n \in DOMAIN dir : IsExe(n) /\ dir[n].kind = "file"

\* two dicts kept as items hold the same keys with the same values
SameDict(d, e) ==
  /\ Keys(d) = Keys(e)
  /\ \A k \in Keys(d) : Lookup(d, k) = Lookup(e, k)

\* C28: on a directory of regular .exe files the builder of the pipeline
\* and the standalone builder return the same mapping, the same
\* canonical_files and the same stats.
C28_BuildersAgree ==
  (OnlyRegularExe(srcDir) /\ pipeOut.status # "none") =>
    \A r \in 1..Len(dedupRuns) :
      /\ pipeOut.status = dedupRuns[r].status
      /\ pipeOut.status = "ok" =>
           /\ SameDict(pipeOut.manifest, dedupRuns[r].manifest)
           /\ SameDict(pipeOut.canonical_files, dedupRuns[r].canonical_files)
           /\ pipeOut.stats.total_size = dedupRuns[r].stats.total_size
           /\ pipeOut.stats.deduped_size = dedupRuns[r].stats.deduped_size
           /\ pipeOut.stats.savings = dedupRuns[r].stats.savings
           /\ pipeOut.stats.duplicate_count = dedupRuns[r].stats.duplicate_count

\* verification is on and the checksum to expect is known
ChecksumKnown == verifyChecksums /\ expectedChecksum # NoResult

C30_NoBreadcrumbAfterDownload ==
  (tool = "download_file" /\ stage \in {"returned", "raised"}) =>
    /\ BreadcrumbPath(OutputPath) \notin DOMAIN fetchDir
    /\ stage = "raised" => OutputPath \notin DOMAIN fetchDir
    /\ stage = "returned" =>
          /\ OutputPath \in DOMAIN fetchDir
          /\ fetchDir[OutputPath] = Fetched("complete", fetchUrl.data)

====
